---- MODULE Spec2Model ----
(***************************************************************************)
(* Rotation selection engine of the Pete & Pete image bot:                 *)
(* LargeScaleImageSelector (src/images/large-scale-selector.ts), the       *)
(* getNextImage dispatcher that calls it and the posting run main() with   *)
(* the files they persist.                                                 *)
(*                                                                         *)
(* File names are sequences of one-character strings, so that the          *)
(* substring and pattern tests of the code are computed, not assumed.      *)
(***************************************************************************)
EXTENDS Integers, Sequences, FiniteSets, TLC

----------------------------------------------------------------------------
(* Strings                                                                 *)

UpperChars ==
  <<"A","B","C","D","E","F","G","H","I","J","K","L","M",
    "N","O","P","Q","R","S","T","U","V","W","X","Y","Z">>

LowerChars ==
  <<"a","b","c","d","e","f","g","h","i","j","k","l","m",
    "n","o","p","q","r","s","t","u","v","w","x","y","z">>

DigitChars == <<"0","1","2","3","4","5","6","7","8","9">>

Range(s) == { s[i] : i \in DOMAIN s }

Min(S) == CHOOSE x \in S : \A y \in S : x <= y

\* the function f, with its values computed once
Tabulated(f) == f @@ <<>>

\* String.prototype.toLowerCase on one character
LowerChar(c) ==
  IF \E i \in 1..26 : UpperChars[i] = c
    THEN LowerChars[CHOOSE i \in 1..26 : UpperChars[i] = c]
    ELSE c

toLowerCase(s) == [i \in 1..Len(s) |-> LowerChar(s[i])]

\* String.prototype.includes
includes(s, p) ==
  \E i \in 1..(Len(s) - Len(p) + 1) : SubSeq(s, i, i + Len(p) - 1) = p

endsWith(s, p) ==
  /\ Len(s) >= Len(p)
  /\ SubSeq(s, Len(s) - Len(p) + 1, Len(s)) = p

IsDigit(c) == c \in Range(DigitChars)

\* \s of the patterns (file names hold no other white space than blanks)
IsSpace(c) == c = " "

\* last index of the maximal run of digits that starts at i
DigitRunEnd(s, i) ==
  i - 1 + Cardinality({ j \in i..Len(s) : \A t \in i..j : IsDigit(s[t]) })

\* first index of the maximal run of digits that ends at i
DigitRunStart(s, i) ==
  i + 1 - Cardinality({ j \in 1..i : \A t \in j..i : IsDigit(s[t]) })

\* index of the first non-blank character at or after i (Len(s)+1 if none)
SkipSpaces(s, i) ==
  i + Cardinality({ j \in i..Len(s) : \A t \in i..j : IsSpace(s[t]) })

\* index of the last non-blank character at or before i (0 if none)
SkipSpacesBack(s, i) ==
  i - Cardinality({ j \in 1..i : \A t \in j..i : IsSpace(s[t]) })

\* the least element of a non-empty set of positions of s: a regular
\* expression matches at the leftmost position where it can
FirstMatch(s, positions) ==
  1 + Cardinality({ j \in 1..Len(s) : \A t \in 1..j : t \notin positions })

----------------------------------------------------------------------------
(* File names                                                              *)

ImageExtensions ==
  { <<".","j","p","g">>, <<".","j","p","e","g">>, <<".","p","n","g">>,
    <<".","g","i","f">>, <<".","b","m","p">> }

\* imageRegex.test(filename): /\.(jpg|jpeg|png|gif|bmp)$/i
imageRegex(name) ==
  \E e \in ImageExtensions : endsWith(toLowerCase(name), e)

\* imageName.replace(/\.(jpg|jpeg|png|gif|bmp)$/i, '')
cleanName(name) ==
  IF imageRegex(name)
    THEN LET e == CHOOSE e \in ImageExtensions : endsWith(toLowerCase(name), e)
         IN  SubSeq(name, 1, Len(name) - Len(e))
    ELSE name

\* /(?:Season?\s*)?(\d+)x(\d+)/i : the positions of an x between two digits
\* (the optional prefix moves the start of the match, never the groups)
MatchesNxM(s) ==
  { k \in 2..(Len(s) - 1) :
      /\ LowerChar(s[k]) = "x"
      /\ IsDigit(s[k - 1])
      /\ IsDigit(s[k + 1]) }

\* /S(\d+)E(\d+)/i : the positions of an S followed by digits, E, digits
MatchesSnEm(s) ==
  { k \in 1..(Len(s) - 3) :
      /\ LowerChar(s[k]) = "s"
      /\ IsDigit(s[k + 1])
      /\ DigitRunEnd(s, k + 1) + 2 <= Len(s)
      /\ LowerChar(s[DigitRunEnd(s, k + 1) + 1]) = "e"
      /\ IsDigit(s[DigitRunEnd(s, k + 1) + 2]) }

\* /(\d+)\s*x\s*(\d+)/i : the positions of an x with digits on both sides,
\* blanks allowed in between
MatchesNspxM(s) ==
  { k \in 2..(Len(s) - 1) :
      /\ LowerChar(s[k]) = "x"
      /\ SkipSpacesBack(s, k - 1) >= 1
      /\ IsDigit(s[SkipSpacesBack(s, k - 1)])
      /\ SkipSpaces(s, k + 1) <= Len(s)
      /\ IsDigit(s[SkipSpaces(s, k + 1)]) }

\* `S${match[1]}E${match[2]}`
EpisodeTag(season, episode) == <<"S">> \o season \o <<"E">> \o episode

\* cleanName.split('-')[0] || cleanName
LeadingToken(s) ==
  LET head == SubSeq(s, 1, FirstMatch(s, { i \in 1..Len(s) : s[i] = "-" }) - 1)
  IN  IF head = <<>> THEN s ELSE head

extractEpisodeIdentifier(imageName) ==
  LET s == cleanName(imageName)
  IN  IF MatchesNxM(s) # {}
        THEN LET k == FirstMatch(s, MatchesNxM(s))
             IN  EpisodeTag(SubSeq(s, DigitRunStart(s, k - 1), k - 1),
                            SubSeq(s, k + 1, DigitRunEnd(s, k + 1)))
      ELSE IF MatchesSnEm(s) # {}
        THEN LET k == FirstMatch(s, MatchesSnEm(s))
                 e == DigitRunEnd(s, k + 1)
             IN  EpisodeTag(SubSeq(s, k + 1, e),
                            SubSeq(s, e + 2, DigitRunEnd(s, e + 2)))
      ELSE IF MatchesNspxM(s) # {}
        THEN LET k == FirstMatch(s, MatchesNspxM(s))
                 b == SkipSpacesBack(s, k - 1)
                 f == SkipSpaces(s, k + 1)
             IN  EpisodeTag(SubSeq(s, DigitRunStart(s, b), b),
                            SubSeq(s, f, DigitRunEnd(s, f)))
      ELSE LeadingToken(s)

----------------------------------------------------------------------------
(* The files of the image queue used by the model                          *)

\* S01E01-a.jpg
imgR1 == <<"S","0","1","E","0","1","-","a",".","j","p","g">>
\* S01E01-b.jpg
imgR2 == <<"S","0","1","E","0","1","-","b",".","j","p","g">>
\* S02E02-a.jpg
imgR3 == <<"S","0","2","E","0","2","-","a",".","j","p","g">>
\* 3x04_Yellow_Fever-0007.png
imgR4 == <<"3","x","0","4","_","Y","e","l","l","o","w","_","F","e","v","e","r","-","0","0","0","7",".","p","n","g">>
\* Season 1x08 Hard_Days_Pete-0236.jpeg
imgR5 == <<"S","e","a","s","o","n"," ","1","x","0","8"," ","H","a","r","d","_","D","a","y","s","_","P","e","t","e","-","0","2","3","6",".","j","p","e","g">>
\* S02E06_Halloweenie-0001.jpg
imgH1 == <<"S","0","2","E","0","6","_","H","a","l","l","o","w","e","e","n","i","e","-","0","0","0","1",".","j","p","g">>
\* s02e06_halloweenie-0002.JPG
imgH2 == <<"s","0","2","e","0","6","_","h","a","l","l","o","w","e","e","n","i","e","-","0","0","0","2",".","J","P","G">>
\* S02E06_HALLOWEENIE-0003.jpg
imgH3 == <<"S","0","2","E","0","6","_","H","A","L","L","O","W","E","E","N","I","E","-","0","0","0","3",".","j","p","g">>
\* Halloweenie-0004.jpg
imgH4 == <<"H","a","l","l","o","w","e","e","n","i","e","-","0","0","0","4",".","j","p","g">>
\* S03E11_christmas_pete_halloweenie-0006.jpg (both keywords)
imgH5 == <<"S","0","3","E","1","1","_","c","h","r","i","s","t","m","a","s","_","p","e","t","e","_","h","a","l","l","o","w","e","e","n","i","e","-","0","0","0","6",".","j","p","g">>
\* S03E11_O'_Christmas_Pete-0001.jpg
imgX1 == <<"S","0","3","E","1","1","_","O","'","_","C","h","r","i","s","t","m","a","s","_","P","e","t","e","-","0","0","0","1",".","j","p","g">>
\* S00E05_New_Years_Pete-0003.jpg
imgX2 == <<"S","0","0","E","0","5","_","N","e","w","_","Y","e","a","r","s","_","P","e","t","e","-","0","0","0","3",".","j","p","g">>
\* S00E05_New_Year's_Pete-0004.jpg
imgX3 == <<"S","0","0","E","0","5","_","N","e","w","_","Y","e","a","r","'","s","_","P","e","t","e","-","0","0","0","4",".","j","p","g">>
\* S03E11_Christmas_Pete-0005.jpg
imgX4 == <<"S","0","3","E","1","1","_","C","h","r","i","s","t","m","a","s","_","P","e","t","e","-","0","0","0","5",".","j","p","g">>
\* S03E11_O'_Christmas_Pete-0002.jpg
imgX5 == <<"S","0","3","E","1","1","_","O","'","_","C","h","r","i","s","t","m","a","s","_","P","e","t","e","-","0","0","0","2",".","j","p","g">>
\* New_Years_Pete-0001.gif
imgX6 == <<"N","e","w","_","Y","e","a","r","s","_","P","e","t","e","-","0","0","0","1",".","g","i","f">>
\* .DS_Store (not an image)
imgJunk == <<".","D","S","_","S","t","o","r","e">>

\* crypto.createHash('sha256').update(filename).digest('hex').slice(0, 8)
\* of the files above
SmallDigest ==
  [f \in {imgR1, imgR2, imgR3, imgR4, imgR5, imgH1, imgH2, imgH3, imgH4, imgH5,
           imgX1, imgX2, imgX3, imgX4, imgX5, imgX6, imgJunk} |->
     IF f = imgR1 THEN "0e26917d" ELSE
     IF f = imgR2 THEN "7486aaa4" ELSE
     IF f = imgR3 THEN "f1c4dc0b" ELSE
     IF f = imgR4 THEN "9c43a631" ELSE
     IF f = imgR5 THEN "4b0598df" ELSE
     IF f = imgH1 THEN "d628f43d" ELSE
     IF f = imgH2 THEN "d67db03f" ELSE
     IF f = imgH3 THEN "cb204a45" ELSE
     IF f = imgH4 THEN "65bdf740" ELSE
     IF f = imgH5 THEN "85b4c368" ELSE
     IF f = imgX1 THEN "40ce1489" ELSE
     IF f = imgX2 THEN "7a2911d7" ELSE
     IF f = imgX3 THEN "cb4478e3" ELSE
     IF f = imgX4 THEN "27ea7902" ELSE
     IF f = imgX5 THEN "1f1e4131" ELSE
     IF f = imgX6 THEN "f5febc59" ELSE
     "e2eb93a6" ]

BigDigest ==
  <<
    "769f2083", "e203306c", "f2d3013c", "eb40868c", "f33bdc82", "675022dc", "c6ada826", "f5840507",
    "4c2885dd", "7b471150", "a454af6d", "8a0e8c3e", "f8ad61cc", "2e4c1514", "6260c8a6", "7fbc5541",
    "45fc24eb", "a771507d", "bbb2e509", "fe21407c", "50e9b3c6", "373166f8", "ae38d6b1", "1aa4eb7f",
    "192752ad", "6ecf3725", "37964c58", "441f5070", "729725da", "c6f01513", "9c0b6cfb", "5928d7d0",
    "b960d36b", "82a88642", "206cfa65", "06b175a5", "250dfd64", "4548ea81", "f5ac3d57", "eebcc268",
    "a5d38a2b", "c97385c0", "dd6d7e9b", "093a008d", "fbedfd62", "633f67a5", "ae34ef23", "c214ef74",
    "9b17e12f", "00b1ebaf", "f111abe0", "d997a9db", "f33806e7", "4a0a1b85", "f690f1bc", "db9b62b0",
    "8a6835cc", "0a88d590", "1ac58680", "cc47c92e", "bcb34ca5", "fe85a083", "55b63954", "7b9116b2",
    "65c21ea1", "bf3595e7", "e943bc97", "d05be8c5", "1187de70", "6d525210", "b3ce36b1", "e6be8fd1",
    "1cceecdd", "e83f6c3d", "1bef520a", "590efe58", "c06f27ee", "ea9958dd", "a7c4384f", "e0d97832",
    "021edf1a", "2cc29edc", "ab7f6a90", "c82425a8", "aac4f529", "6c4ab020", "aee0e3dd", "c789336e",
    "b9f9210c", "0c46a2c0", "d96f378f", "7fc21e5b", "e85a715d", "3e91d700", "ebd14251", "b655f6d3",
    "711fa940", "efb78b06", "9bf5ebf7", "0a0761a1", "b8b11e03", "4871dd04", "902bf6fb", "38f8ad52",
    "8506b5cb", "616bbc86", "369a737f", "6feac38f", "7055ba6d", "ff8cc39c", "b0f7bca5", "6bb602b4",
    "e9f88646", "c23cbceb", "fe3eb0c8", "180d8df1", "34e884f4", "01008df4", "4ab225a0", "03064dab",
    "3dd0deb2", "8a6ede86", "b4b6604e", "df111a0d", "113ff9a7", "784b11bd", "78bf63c0", "df08cb7b",
    "2e90e050", "b63817ce", "175242a9", "813b871d", "7162df70", "10b0b41e", "ba20cfe7", "d9e26e59",
    "8b9d3254", "887a3138", "7129133d", "3f218a64", "565fb291", "5c80e441", "70c86849", "1f4d9859",
    "ebd8d1db", "c0cfe92e", "17f34624", "3f8dfb39", "3d3fe5a7", "e22d3ed1", "e8ebd762", "75e7c54e",
    "a4d0009d", "237de5e8", "8ca36d85", "8c2a96ca", "095c9fb3", "2d413189", "f441e670", "7934ec42",
    "84013163", "7ca2b0c9", "741edbdd", "7b4ff223", "3181635c", "d47e05d0", "717eccc4", "e092698e",
    "e1a6834e", "cef1cefa", "06ced43a", "23d68c22", "0b25a4c8", "93194264", "23eabc2d", "e28a2e08",
    "734785ce", "dfbc8983", "6cb3c57e", "4b1cfbb1", "7383341b", "172dc92a", "e6989478", "25aebc42",
    "8ca578d4", "2074fef4", "2b099a94", "cb959e35", "4b595686", "48d36238", "1fa01103", "89d795e0",
    "cfc414d9", "a0e233e3", "d312cac7", "43a5bb71", "cc8f4d29", "ec540d01", "e8ee0ff3", "f7dc8b4f",
    "2565c49e", "28527765", "ca86da44", "b9007cef", "5527856f", "b32bbe90", "83e25e89", "9d7b5938",
    "6ae6d036", "75270d4e", "76b26399", "2e7494d0", "5c255913", "c78a90a1", "c8999dcd", "ea0d201c",
    "dd1610a5", "e4eaa86f", "c33da030", "66995244", "3b6a8d85", "43ec6bd4", "021cd918", "5265fdaf",
    "f7fed5f7", "ee7aa71a", "cf95a8cb", "18997f11", "2afaca95", "ad8f3516", "8f149928", "df84e91a",
    "11d2d54d", "6192b65d", "0aeaff9a", "2ec92a4e", "8b66a747", "43689141", "18a6ae59", "b9139cf2",
    "9745908d", "78e904f8", "6f2b7493", "5f167aaa", "1573fafa", "631ab7d7", "a643e3c5", "d4bb175b",
    "642efab7", "d7e7dfe1", "deeeb44b", "7448e5f0", "917fb336", "a1647716", "59f40646", "da4f7690",
    "d02757db", "76d1f041", "56d299de", "df76106a", "b3389345", "1feffa20", "cd92308c", "e7e58eb0",
    "c8a647e3", "d39ceca3", "9c9c5ba0", "0f8d9952", "acb8c012", "873abd2e", "163f1a2a", "ac3a7043",
    "537bf097", "a4c8b18a", "6f3114b9", "5f7dbd1f", "be646be4", "facb25bb", "d4fe66c3", "d4d0a571",
    "00fc7ef0", "7a0a40c5", "8de45c64", "66b861cf", "a3fdb959", "f46ee326", "4cc80740", "dd990550",
    "019b5993", "dc0ad211", "b0b57086", "e80cfb63", "eb9131f2", "e0e5c604", "110acaa5", "496f1c3f",
    "d7414072", "cfc2a90c", "6a3dc074", "8be70bec", "80d1e819", "fd83a9a3", "3d5ea022", "7cfa164d",
    "5800da68", "4d78c823", "830e2f76", "f10950c0", "a4a2c9c1", "c2c9aa45", "c03d06fc", "96237b3e",
    "95dcf33e", "faf4c5dd", "051c8642", "f8c37168", "0465969e", "db94ff77", "f2e94809", "ab99376d",
    "6a389c21", "170a397b", "08b612ea", "386ea789", "bed4b51b", "e8e99245", "5b0c7874", "cc4eeb71",
    "dd3fc45e", "ad80e32c", "2e6d7b04", "e3341cd0", "019cdba5", "2bb19382", "1581ade0", "e5d8b655",
    "1bd61041", "1556715f", "74c6e0c5", "19eed94e", "a777fd2b", "cc605300", "d27d6155", "0c12a3f2",
    "bdfb13d2", "5bcc6884", "fac06a10", "0cffeb26", "8579b689", "39004a4e", "98238c22", "45e5c884",
    "4896a95f", "3bee83f1", "724893af", "f035cfdc", "c663a077", "19899a90", "f77e48d6", "4da935fd",
    "d4df858d", "8eed541f", "b6635e1e", "7285d422", "ea7b3453", "e764e409", "7e490af1", "2b3dc115",
    "549c0aba", "e575ae67", "d9de3452", "94320880", "dcac7226", "ddbe9567", "447fdd0c", "fd4ad95a",
    "dd018a32", "a3a71681", "c6b52136", "917464f2", "ed20e111", "6a56b090", "2ee9259a", "0e5f91ab",
    "4722c9d4", "68615597", "1a8a6cf1", "8939cd51", "3a2c57e0", "62ac40cb", "506fcda8", "f9d5c66b",
    "f678adcf", "90e54850", "e6bffffd", "7368260c", "804a6816", "f9265f11", "148ca13c", "652bd385",
    "609a5ef4", "3012a34d", "f558cb1e", "4e239506", "3e2d4c74", "fe5adfc9", "12647ffa", "849cacca",
    "14426c4e", "7ba11cc2", "59a737d4", "8191635a", "9636210b", "a7181cea", "2cd4111a", "b32e1201",
    "c245ff50", "01d16255", "1a4ee987", "52db2904", "5e808327", "0b8dd6c9", "3ad7cd68", "b0b84bb5",
    "e76b42f1", "0d58c15e", "7a6f6c75", "5368ee4e", "73e187f8", "dcceb8f1", "f690af23", "cb21527a",
    "ba512464", "97b7fe6e", "d87a94ca", "bf7efdcc", "e8bbc039", "a8e577b5", "f9d37f14", "fa32b779",
    "63f8ea33", "e2a0d034", "2e102dba", "6fd9ac05", "e617b91a", "761212c5", "55f4d934", "ac2cf318",
    "abc220ee", "18146a20", "d26fa372", "ee396925", "c2413900", "eb1ed50d", "a1dd4ecb", "f50c8f0c",
    "347aac16", "8c8d944d", "a5fe8903", "97d04fc8", "c11bfac0", "da776da3", "1f4fa8ea", "3bb915a8",
    "d4066884", "1f2c2e91", "cd8c5ebb", "8cbe5c7d", "3bd6b9a1", "a0410e07", "331ad0c5", "17b8b92f",
    "5b2c432e", "39924075", "ed5ff593", "36824ef6", "bf354a37", "6eb6efd5", "a7d4e2d4", "998e05e8",
    "0aa9c11d", "a4e5f1a2", "850bc3db", "5f1e7932", "f086273e", "559de7aa", "b1b48ed0", "38766d42",
    "449ac998", "49a7bb21", "987816ba", "bb78d1de", "7d749b6e", "44213010", "fbdd1403", "8e4071ea",
    "eec15563", "7c0730a6", "3d7bd1bd", "01ec1282", "e3041aed", "5312cf8f", "52ac4158", "838c6733",
    "2daa4369", "b6e9a4bc", "62c983d8", "18de34d4", "a7361c50", "e0d70f31", "afd38c89", "b53a8df8",
    "025d6b13", "bee73866", "2627012e", "9c4df5b7", "510539ac", "059868f1", "5df5c5a8", "ce813c8b",
    "60473063", "c03f4189", "2c9bcdd2", "43774828", "a9609f46", "aa7c91a7", "29ab9f13", "2017fdc8",
    "7ebda458", "f53fe29b", "390ae4bb", "fdfc2d8b", "4f1a80be", "3f0626e8", "ec4a5872", "6a054d03",
    "0e03bc8e", "17ca2f87", "d210617b", "501c57bb", "b1450465", "03b03852", "e85d66ba", "cba64f22",
    "a1e48c27", "af1823fa", "0b3fee86", "018deb81", "8d065405", "82de1c43", "dbfcf4c1", "7c789a6a",
    "aa6963e0", "699af1a3", "1feca4e0", "eeab9584", "fccdc9a0", "1dfc1274", "72ed74d8", "58871085",
    "46b2a301", "13a0114b", "d52e648b", "50c4771c", "826fa062", "0ad0a93f", "d4b77ee0", "0ce7251e",
    "63c0b319", "a9632aaf", "41c750dc", "24f944a8", "f9b1a734", "1fdd3afc", "6cadef93", "c39fff47",
    "45b3cd6f", "e3efd992", "b7a973cc", "6300c87c", "4bfa58be", "baad65b7", "b3347b27", "66c16eaa",
    "83d8a0a3", "0178a15c", "6e4012ab", "2d2ea040", "6b6be5f3", "c91ea641", "ed86a198", "71827b60",
    "438d2f34", "d36c44f9", "6ebefbca", "8069b83a", "9a38731a", "9d8ae372", "142a9782", "772cf533",
    "8c3ef6d6", "6110ee53", "488ee0d5", "9ba39662", "a51d5b99", "6ddfc7e6", "a06bbba7", "de2fe9e5",
    "9393f120", "b5d70731", "4e94bc8f", "b406b69f", "a56e8d3a", "57f3b778", "b5ad548f", "452bac36",
    "fa3badc9", "017486fd", "aa93c8b1", "767430d0", "e4a9b388", "702c6247", "7a44cf4d", "a52de815",
    "45f37efa", "62d3eeaa", "02f8b4f5", "508ee10d", "1d30e890", "030c366c", "3201afaa", "c29ef4a9",
    "1c62d1c4", "19c29dda", "10ca53ec", "3b3ec146", "09b42ecc", "a09e7fcd", "f5c7d529", "c5a46b8a",
    "bb72ef13", "7836c1d6", "839fa8e8", "deadbedc", "9707e4f4", "c89bca9b", "75f33ccc", "f4174ebf",
    "5690ef1a", "1acfa0b1", "feb35031", "dfc3f120", "f0b2fda3", "3b493220", "c38600be", "c4699466",
    "1b5198c8", "0ebefd8f", "2d39674c", "bdf316e7", "21b39e8a", "c4a86ecf", "12f63551", "9e2e4e9b",
    "f792e204", "ae9283f2", "eebc7eac", "884913a3", "7cc280f2", "c3989945", "0b037c10", "70a261d6",
    "3671385d", "fc9cfabe", "b2f8de37", "db0eb582", "6a4dbc5b", "300c1f01", "dec59e13", "195b21f8",
    "e1d801bd", "86db823b", "5c25075e", "a625c4fe", "1bf6443c", "4ede53b0", "b638fcee", "f579c6d0",
    "0b28fc5e", "324131e7", "9d352d9e", "fbb787bc", "de3fd360", "e866bf83", "5ff3055c", "55819120",
    "a5e59dd3", "97cd243d", "6a4e4488", "540bfc5d", "cbdd0f62", "817e023c", "8b85e5e0", "2ffb4c7c",
    "742c457e", "283a48e0", "e9ffe0af", "ef1023e8", "dbf0e2c4", "276166c2", "2c37d543", "565f5068",
    "0df790ea", "11af597a", "c30e585e", "596c2939", "65e506a3", "bac65a40", "b63fd149", "90439385",
    "7909dfca", "489a9e64", "7a87c947", "3c3e9fa9", "79aea677", "e8d72027", "47ab0069", "87b875a5",
    "db9cbfab", "87811648", "8dd6047e", "731e92c5", "23a29e6b", "832efbe3", "32741a90", "4e477263",
    "6c9f72a2", "d35f16a2", "10750f8d", "f7242ca8", "2dc59c2d", "6cd37afa", "13479814", "7bdde3d1",
    "aa19acf5", "8450a563", "200c5160", "4860f8f5", "5e41f918", "c4e66a35", "447e8ec1", "fb4e1c53",
    "0826c865", "ea2c7415", "712d75ad", "ad8676da", "79424fa6", "3f7ed057", "25080972", "6593060c",
    "cd6e5242", "e4fb48d6", "9a11d62f", "04bb2328", "f31e3757", "8c63aa44", "3cb1218e", "f00e18c0",
    "ea5779e4", "abf6a7ab", "d3ef3b23", "76f560d8", "eaa35d6c", "cf7f0a32", "15fc7940", "fcfce556",
    "7d6b51bf", "e15a6f8f", "e470f1d5", "9e19bb66", "bab42384", "c8a836d3", "fb3dec9a", "7fe0752b",
    "7754e9d8", "32d3c808", "68173910", "6571049b", "c721864f", "044b6465", "06c3e788", "d2894277",
    "707cad81", "0505d62b", "5980cfb3", "1c07f6fc", "8ef04e2b", "93fd5652", "0ce670fb", "2d9a8051",
    "d0bdfcf9", "8c5d85c8", "d57f2bf1", "4ee880ed", "8c9ab40c", "c5fa8da0", "0985308d", "db426910",
    "303e9e41", "139729ab", "ea37b0b9", "ddaca07d", "bb4a7614", "0159f7bd", "b69e5ce2", "a80c614e",
    "e52bf5b5", "9adfb83e", "48e748f8", "7b48f5ee", "11ae440e", "309ce59c", "e280787e", "62501f52",
    "1de2ae6a", "406d2337", "46a39dca", "15b6abad", "a55eabc4", "d8217598", "eb221813", "ecec965c",
    "7033bcff", "e0c0ccad", "0d369504", "74e167c5", "f13cc570", "5919bc01", "93cbb6cf", "39653531",
    "976d98df", "b623379a", "da19e5c3", "3b022544", "28d9a896", "3816de13", "1dd5e3fe", "a44c4e1a",
    "da978118", "7902bb9c", "c840aafd", "bfe770be", "d05d5e5d", "eaa82523", "1523081f", "5703f645",
    "9aca52ee", "8d2fbd1f", "f1182ba8", "5f03a92f", "9a279ec4", "c4aa2e45", "48303f88", "d4708ef2",
    "60e50ffc", "36950997", "6618311b", "48cfc723", "48ac2edf", "d82d247a", "aa0b1e54", "09a0977d",
    "00c3ffc8", "a5f0e506", "8923e541", "7fa958fb", "002b8590", "011dca20", "a2e4fad6", "8f549be7",
    "692abf32", "28699d10", "f4b84cd4", "b9cf736e", "50ad84ed", "ef934652", "25d0aaae", "5eb5f25d",
    "553b71eb", "b33da88e", "ab210b05", "897a0cdd", "dc751bf4", "9c8ed21b", "5c3a1c63", "7ffe3f57",
    "ebc72a39", "5fdc81e7", "794f60cf", "4b5ff7f9", "ef3a316c", "bddd51ba", "7f257dd6", "fbe5cb5f",
    "46c33dfb", "c772dcf5", "d7b84910", "9b2677b9", "70654704", "bcbe7c05", "eaf37899", "ca5b2df1",
    "f974ef6d", "5df5da51", "c76f85fd", "b9505e52", "edf7fcab", "5f5c357d", "6240e781", "6e6dba3e",
    "778f4477", "37e6d115", "bcaa3cae", "81730d6c", "a1035e45", "c1684528", "06d2023d", "b1cd6cd3",
    "ac66e127", "40537ca5", "f06f3389", "c3f0a5af", "f5efdad8", "b6b234a9", "b03d75d1", "45e7f8e5",
    "b0683404", "7c9bbec8", "e1d9980b", "1c0bc733", "52fe74b1", "001164e8", "48beaf29", "a8e7dc56",
    "a139df43", "c25c4fcf", "d65fbf7a", "be7fae4d", "6ad9b1b2", "134a6ce4", "c67d7f50", "4fe6df60",
    "f71a827d", "f66b9400", "07c58076", "81aefc6b", "b13c0192", "32a8101a", "9d2f5956", "d189ace5",
    "5b3e0ae9", "d97c3f49", "6e17120e", "1c4be548", "332596c2", "3e538efd", "fd4c4227", "9d0ef21b",
    "84cf79cf", "a094064f", "7adf9913", "f713f7cd", "636b5f4a", "f2d2ad0f", "1e5a3f7a", "37e20363",
    "13df9f4e", "4a084d3f", "21c3f95c", "5edd4f45", "ad1930d0", "8d2ad882", "5058bb51", "6fc2f4ec",
    "5b91520a", "67fdaf4f", "19d6a03a", "c6d22682", "4c6188d1", "d7060ac0"
  >>
BigCount == Len(BigDigest)

\* S03E12_Das_Bus-<nnnn>.jpg
BigImage(i) ==
  <<"S","0","3","E","1","2","_","D","a","s","_","B","u","s","-">>
    \o << DigitChars[((i \div 1000) % 10) + 1], DigitChars[((i \div 100) % 10) + 1],
          DigitChars[((i \div 10) % 10) + 1],   DigitChars[(i % 10) + 1] >>
    \o <<".","j","p","g">>

SmallNames ==
  << imgR1, imgR2, imgR3, imgR4, imgR5, imgH1, imgH2, imgH3, imgH4, imgH5,
     imgX1, imgX2, imgX3, imgX4, imgX5, imgX6, imgJunk >>

\* every file name of the model; a file is identified by its index in FileNames
FileNames == SmallNames \o [i \in 1..BigCount |-> BigImage(i)]

Files == DOMAIN FileNames

Id(name) == CHOOSE i \in 1..Len(SmallNames) : SmallNames[i] = name

BigIds == [i \in 1..BigCount |-> Len(SmallNames) + i]

\* the listings of the imagequeue directory the model runs on
Directories ==
  << <<Id(imgR1), Id(imgR2), Id(imgR3)>>,
     <<Id(imgJunk), Id(imgH1), Id(imgH2)>>,
     <<Id(imgR1), Id(imgR2), Id(imgR3), Id(imgH1), Id(imgH2), Id(imgX1), Id(imgX2)>>,
     <<Id(imgR1), Id(imgR3), Id(imgR4), Id(imgH1), Id(imgH2), Id(imgH3),
       Id(imgH4), Id(imgH5), Id(imgX1), Id(imgX2), Id(imgX3), Id(imgX4),
       Id(imgX5), Id(imgX6)>>,
     <<Id(imgJunk)>>,
     BigIds \o <<Id(imgR1), Id(imgR2), Id(imgR3), Id(imgR4), Id(imgR5),
                 Id(imgH1), Id(imgH2), Id(imgH3), Id(imgX1), Id(imgX2),
                 Id(imgX3)>>,
     SubSeq(BigIds, 1, BigCount - 1)
       \o <<Id(imgR1), Id(imgR2), Id(imgR3), Id(imgR4), Id(imgR5),
            Id(imgH1), Id(imgH2), Id(imgH3), Id(imgX1), Id(imgX2),
            Id(imgX3)>> >>

\* the directories the runs of the selector start in: all but the last one,
\* which holds exactly 1000 images
SelectorDirectories == 1..6

Sha256Hex8 ==
  Tabulated([f \in Files |->
     IF f <= Len(SmallNames) THEN SmallDigest[FileNames[f]]
     ELSE BigDigest[f - Len(SmallNames)]])

\* hashFilename: the first 8 hex digits of the SHA-256 of the file name
hashFilename(filename) == Sha256Hex8[filename]

----------------------------------------------------------------------------
(* Seasonal rules                                                          *)

kwHalloweenie == <<"h","a","l","l","o","w","e","e","n","i","e">>
kwChristmasPete == <<"c","h","r","i","s","t","m","a","s","_","p","e","t","e">>
kwOChristmasPete == <<"o","'","_">> \o kwChristmasPete
kwNewYearsPete == <<"n","e","w","_","y","e","a","r","s","_","p","e","t","e">>
kwNewYearSPete == <<"n","e","w","_","y","e","a","r","'","s","_","p","e","t","e">>

\* the keyword tests of getSeasonalStatus: the seasonType of an image,
\* "none" when it is not a seasonal episode
seasonType(imageName) ==
  LET content == toLowerCase(imageName)
  IN  IF includes(content, kwHalloweenie) THEN "halloween"
      ELSE IF \/ includes(content, kwChristmasPete)
              \/ includes(content, kwOChristmasPete)
              \/ includes(content, kwNewYearSPete)
              \/ includes(content, kwNewYearsPete) THEN "christmas"
      ELSE "none"

SeasonTypeOf == Tabulated([f \in Files |-> seasonType(FileNames[f])])

getSeasonalStatus(imageName, month) ==
  LET t == SeasonTypeOf[imageName]
  IN  [ isSeasonalEpisode |-> t # "none",
        currentlySeasonal |-> CASE t = "halloween" -> month = 10
                                [] t = "christmas" -> month = 12
                                [] OTHER           -> TRUE,
        seasonType        |-> t ]

isOfSeason(image, month, type) ==
  /\ getSeasonalStatus(image, month).isSeasonalEpisode
  /\ getSeasonalStatus(image, month).seasonType = type

\* the seasonal filter without its last step: the other months get the
\* whole catalog
filterImagesWithoutOffSeasonRule(validImageFiles, month) ==
  LET halloweenieImages ==
        SelectSeq(validImageFiles, LAMBDA image : isOfSeason(image, month, "halloween"))
      christmasImages ==
        SelectSeq(validImageFiles, LAMBDA image : isOfSeason(image, month, "christmas"))
  IN  IF month = 10
        THEN IF Len(halloweenieImages) > 0 THEN halloweenieImages ELSE validImageFiles
      ELSE IF month = 12
        THEN IF Len(christmasImages) > 0 THEN christmasImages ELSE validImageFiles
      ELSE validImageFiles

\* the seasonal filter taking every seasonal episode in October and
\* December, whatever its seasonType
filterImagesOfAnySeason(validImageFiles, month) ==
  LET seasonalImages ==
        SelectSeq(validImageFiles,
                  LAMBDA image : getSeasonalStatus(image, month).isSeasonalEpisode)
      nonSeasonalImages ==
        SelectSeq(validImageFiles,
                  LAMBDA image : ~ getSeasonalStatus(image, month).isSeasonalEpisode)
  IN  IF month = 10 \/ month = 12
        THEN IF Len(seasonalImages) > 0 THEN seasonalImages ELSE validImageFiles
      ELSE nonSeasonalImages

filterImagesBySeasonalRules(validImageFiles, month) ==
  LET halloweenieImages ==
        SelectSeq(validImageFiles, LAMBDA image : isOfSeason(image, month, "halloween"))
      christmasImages ==
        SelectSeq(validImageFiles, LAMBDA image : isOfSeason(image, month, "christmas"))
      nonSeasonalImages ==
        SelectSeq(validImageFiles,
                  LAMBDA image : ~ getSeasonalStatus(image, month).isSeasonalEpisode)
  IN  IF month = 10
        THEN IF Len(halloweenieImages) > 0 THEN halloweenieImages ELSE validImageFiles
      ELSE IF month = 12
        THEN IF Len(christmasImages) > 0 THEN christmasImages ELSE validImageFiles
      ELSE nonSeasonalImages

\* getNextImage: imageFiles.filter((filename) => imageRegex.test(filename))
ValidImageFiles ==
  Tabulated([d \in DOMAIN Directories |->
     SelectSeq(Directories[d], LAMBDA filename : imageRegex(FileNames[filename]))])

\* filterImagesBySeasonalRules of every directory in every month
SeasonallyAllowed ==
  Tabulated([d \in DOMAIN Directories, m \in 1..12 |->
     filterImagesBySeasonalRules(ValidImageFiles[d], m)])

\* extractEpisodeIdentifier of every file
EpisodeOf == Tabulated([f \in Files |-> extractEpisodeIdentifier(FileNames[f])])

----------------------------------------------------------------------------
(* Program constants                                                       *)

\* Math.floor(validImageFiles.length * 0.15), 2000
ExclusionPercent == 15
ExclusionCeiling == 2000
\* maxFileSize = 50 * 1024
maxFileSize == 50 * 1024
\* Math.abs(history.totalImagesEver - this.validImageFiles.length) > 50
DriftThreshold == 50
\* recentEpisodes.slice(-3)
ClusterWindow == 3
\* getRecentPostingHistory(historySize = 8)
historySize == 8
\* getNextImage: validImageFiles.length > 1000
LargeThreshold == 1000
\* the test taking catalogs of 1000 images too
useLargeScaleSelectorFromThreshold(validImageFiles) ==
  Len(validImageFiles) >= LargeThreshold

\* if (validImageFiles.length > 1000)
useLargeScaleSelector(validImageFiles) ==
  Len(validImageFiles) > LargeThreshold

\* postWithRetry(imageData, maxRetries = 3)
maxRetries == 3
\* main: history.entries.length > 100
PostingHistoryCap == 100

(* Bounds of the model                                                     *)

\* work per behaviour when the files on disk start with any content: a call
\* of selectNextImage counts 1 and a run of main counts 2
MaxRuns == 2
\* the same when the files on disk start absent
MaxFreshRuns == 4
\* Math.random() is drawn from { 0/RandomGrain, .., (RandomGrain-1)/RandomGrain }
RandomGrain == 3

----------------------------------------------------------------------------
(* JSON values and the two persisted files                                 *)

JNum(n) == [t |-> "number", n |-> n]
JNoNum(t) == [t |-> t, n |-> 0]
JArr(a) == [t |-> "array", a |-> a]
JNoArr(t) == [t |-> t, a |-> <<>>]

\* number of characters of the decimal form of a natural number
DecimalDigits(n) ==
  IF n < 10 THEN 1 ELSE IF n < 100 THEN 2 ELSE IF n < 1000 THEN 3
  ELSE IF n < 10000 THEN 4 ELSE IF n < 100000 THEN 5 ELSE 6

\* JSON.stringify(history, null, 2).length; the members the engine does not
\* know are counted in extra
JsonLength(h) ==
  LET a == h.recentlyUsed.a
      arrayLength ==
        IF h.recentlyUsed.t # "array" \/ a = <<>> THEN 2 ELSE 4 + 16 * Len(a)
  IN  182 + arrayLength + DecimalDigits(h.totalImagesEver.n)
          + DecimalDigits(h.postsThisCycle.n) + h.extra

\* .large-scale-history.json does not exist
NoHistoryFile ==
  [ kind |-> "absent", recentlyUsed |-> JNoArr("undefined"),
    totalImagesEver |-> JNoNum("undefined"),
    postsThisCycle |-> JNoNum("undefined"),
    cycleStartedAt |-> 0, lastUpdated |-> 0,
    formatVersion |-> JNoNum("undefined"), extra |-> 0 ]

\* .large-scale-history.json holds text JSON.parse rejects
UnparsableHistoryFile == [NoHistoryFile EXCEPT !.kind = "unparsable"]

\* createFreshHistory storing one image fewer than validImageFiles.length
createFreshHistoryMiscounting(validImageFiles, now) ==
  [ kind |-> "json", recentlyUsed |-> JArr(<<>>),
    totalImagesEver |-> JNum(Len(validImageFiles) - 1),
    postsThisCycle |-> JNum(0),
    cycleStartedAt |-> now, lastUpdated |-> now,
    formatVersion |-> JNum(1), extra |-> 0 ]

createFreshHistory(validImageFiles, now) ==
  [ kind |-> "json", recentlyUsed |-> JArr(<<>>),
    totalImagesEver |-> JNum(Len(validImageFiles)),
    postsThisCycle |-> JNum(0),
    cycleStartedAt |-> now, lastUpdated |-> now,
    formatVersion |-> JNum(1), extra |-> 0 ]

isValidHistory(data) ==
  /\ data.recentlyUsed.t = "array"
  /\ data.totalImagesEver.t = "number"
  /\ data.postsThisCycle.t = "number"

\* loadHistory rejecting a file of exactly maxFileSize characters
loadHistoryRejectingAtLimit(file, validImageFiles, now) ==
  IF file.kind = "absent" THEN createFreshHistory(validImageFiles, now)
  ELSE IF JsonLength(file) >= maxFileSize
    THEN createFreshHistory(validImageFiles, now)
  ELSE IF file.kind = "unparsable"
    THEN createFreshHistory(validImageFiles, now)
  ELSE IF isValidHistory(file) THEN file
  ELSE createFreshHistory(validImageFiles, now)

loadHistory(file, validImageFiles, now) ==
  IF file.kind = "absent" THEN createFreshHistory(validImageFiles, now)
  ELSE IF JsonLength(file) > maxFileSize
    THEN createFreshHistory(validImageFiles, now)
  ELSE IF file.kind = "unparsable"
    THEN createFreshHistory(validImageFiles, now)
  ELSE IF isValidHistory(file) THEN file
  ELSE createFreshHistory(validImageFiles, now)

\* the last n elements of an array, none of them for n = 0
lastElements(a, n) ==
  IF n >= Len(a) THEN a ELSE SubSeq(a, Len(a) - n + 1, Len(a))

\* Array.prototype.slice(-n): the last n elements, and the whole array for
\* n = 0 because -0 is 0
sliceLast(a, n) ==
  IF n = 0 THEN a
  ELSE IF n >= Len(a) THEN a
  ELSE SubSeq(a, Len(a) - n + 1, Len(a))

\* constructor: this.recentExclusionSize
recentExclusionSize(validImageFiles) ==
  Min({ (Len(validImageFiles) * ExclusionPercent) \div 100, ExclusionCeiling })

\* saveHistory with the emergency trim taken whatever the size of the document
saveHistoryAlwaysTrimmed(history, validImageFiles, now) ==
  LET cap == recentExclusionSize(validImageFiles)
      h1  == [history EXCEPT !.lastUpdated = now]
  IN  [h1 EXCEPT !.recentlyUsed = JArr(sliceLast(h1.recentlyUsed.a, (cap * 7) \div 10))]

\* saveHistory cutting the list at its end: slice(0, cap)
saveHistoryDroppingNewest(history, validImageFiles, now) ==
  LET cap == recentExclusionSize(validImageFiles)
      h1  == [history EXCEPT !.lastUpdated = now]
      h2  == IF Len(h1.recentlyUsed.a) > cap
               THEN [h1 EXCEPT !.recentlyUsed = JArr(SubSeq(h1.recentlyUsed.a, 1, cap))]
               ELSE h1
      emergencySize == (cap * 7) \div 10
  IN  IF JsonLength(h2) > maxFileSize
        THEN [h2 EXCEPT !.recentlyUsed = JArr(sliceLast(h2.recentlyUsed.a, emergencySize))]
        ELSE h2

\* saveHistory up to the write: the document handed to fs.writeFileSync
saveHistory(history, validImageFiles, now) ==
  LET cap == recentExclusionSize(validImageFiles)
      h1  == [history EXCEPT !.lastUpdated = now]
      h2  == IF Len(h1.recentlyUsed.a) > cap
               THEN [h1 EXCEPT !.recentlyUsed = JArr(sliceLast(h1.recentlyUsed.a, cap))]
               ELSE h1
      emergencySize == (cap * 7) \div 10
  IN  IF JsonLength(h2) > maxFileSize
        THEN [h2 EXCEPT !.recentlyUsed = JArr(sliceLast(h2.recentlyUsed.a, emergencySize))]
        ELSE h2

\* .bot-history.json does not exist
NoBotHistoryFile == [kind |-> "absent", entries |-> JNoArr("undefined")]

\* .bot-history.json holds text JSON.parse rejects
UnparsableBotHistoryFile == [kind |-> "unparsable", entries |-> JNoArr("undefined")]

\* an entry of the posting history, as far as the engine reads it
Entry(imageName) == [imageName |-> [t |-> "string", s |-> imageName]]

\* an entry without imageName
EntryWithoutName == [imageName |-> [t |-> "undefined", s |-> 0]]

\* getRecentPostingHistory: history.entries.slice(-historySize).map(e => e.imageName);
\* the catch returns [] when entries cannot be sliced
getRecentPostingHistory(file) ==
  IF file.kind # "json" \/ file.entries.t # "array" THEN <<>>
  ELSE LET recent == sliceLast(file.entries.a, historySize)
       IN  [i \in 1..Len(recent) |-> recent[i].imageName]


----------------------------------------------------------------------------
(* The weighted variant of getNextImage                                    *)

\* getRecentPostingHistory(36)
weightedHistorySize == 36
\* const maxAttempts = 100
maxAttempts == 100
\* if (attempts >= 75)
relaxAfter == 75
\* hasEpisodeClustering(.., maxClusterSize = 1, windowSize = 12)
maxClusterSize == 1
windowSize == 12
\* recentHistory.slice(-6) of hasEpisodeClustering
veryRecentSize == 6
\* recentHistory.slice(-3) of the relaxed check and of the emergency fallback
relaxedSize == 3

\* getRecentPostingHistory of the weighted variant: the names of the last
\* entries, [] when the file is missing or the catch is taken
getRecentPostingHistoryOf(file, size) ==
  IF file.kind # "json" \/ file.entries.t # "array" THEN <<>>
  ELSE LET recent == sliceLast(file.entries.a, size)
       IN  [i \in 1..Len(recent) |-> recent[i].imageName]

\* extractEpisodeIdentifier(name) calls name.replace: it throws on a name
\* that is not a string
namesAreStrings(recentHistory) ==
  \A i \in DOMAIN recentHistory : recentHistory[i].t = "string"

\* .some(name => extractEpisodeIdentifier(name) === targetEpisode)
someOfEpisode(names, targetEpisode) ==
  \E i \in DOMAIN names : EpisodeOf[names[i].s] = targetEpisode

\* hasEpisodeClustering looking at the last 2 posts only
hasEpisodeClusteringOfLastTwo(imageName, recentHistory, maxCluster, window) ==
  /\ Len(recentHistory) # 0
  /\ someOfEpisode(sliceLast(recentHistory, 2), EpisodeOf[imageName])

hasEpisodeClustering(imageName, recentHistory, maxCluster, window) ==
  IF Len(recentHistory) = 0 THEN FALSE
  ELSE LET targetEpisode == EpisodeOf[imageName]
           recentWindow == sliceLast(recentHistory, window)
           sameEpisodeCount ==
             Cardinality({ i \in DOMAIN recentWindow :
                             EpisodeOf[recentWindow[i].s] = targetEpisode })
           veryRecentWindow == sliceLast(recentHistory, veryRecentSize)
           hasVeryRecentEpisode == someOfEpisode(veryRecentWindow, targetEpisode)
       IN  sameEpisodeCount >= maxCluster \/ hasVeryRecentEpisode

\* if (!isLastImage && !hasEpisodeCluster) break
passesStrict(selectedImage, lastImageName, recentHistory) ==
  /\ selectedImage # lastImageName
  /\ ~ hasEpisodeClustering(selectedImage, recentHistory, maxClusterSize, windowSize)

\* if (!isLastImage && !hasVeryRecentCluster) break
passesRelaxed(selectedImage, lastImageName, recentHistory) ==
  /\ selectedImage # lastImageName
  /\ ~ someOfEpisode(sliceLast(recentHistory, relaxedSize), EpisodeOf[selectedImage])

\* the emergency fallback: any image that is none of the last 3 posted, and
\* any image when there is none
emergencyImages(validImageFiles, recentHistory) ==
  LET lastOnes == sliceLast(recentHistory, relaxedSize)
      recentImages == { lastOnes[i].s : i \in DOMAIN lastOnes }
      availableImages == { validImageFiles[i] : i \in DOMAIN validImageFiles } \ recentImages
  IN  IF availableImages # {} THEN availableImages
      ELSE { validImageFiles[i] : i \in DOMAIN validImageFiles }

\* the keys of imageWeights: initializeWeights sets one for every image of
\* the catalog, and applyHistoryWeights sets one for every name of the
\* recent history, in the catalog or not
weightedNames(validImageFiles, recentHistory) ==
  { validImageFiles[i] : i \in DOMAIN validImageFiles }
    \cup { recentHistory[i].s : i \in DOMAIN recentHistory }

\* what the do-while loop can end with: every key of imageWeights has a
\* positive weight, so that each attempt of selectWeightedRandom can draw any
\* of them. The attempts before the last one drew names that fail the
\* strict check, and from attempt 75 on names that fail the relaxed check
\* too
loopOutcomes(validImageFiles, lastImageName, recentHistory) ==
  LET images  == weightedNames(validImageFiles, recentHistory)
      failing == { image \in images : ~ passesStrict(image, lastImageName, recentHistory) }
      stuck   == { image \in failing : ~ passesRelaxed(image, lastImageName, recentHistory) }
  IN  { [imageName |-> image, path |-> "strict", attempts |-> a] :
          image \in images \ failing,
          a \in { n \in 1..maxAttempts :
                    \/ n = 1
                    \/ failing # {} /\ (n <= relaxAfter \/ stuck # {}) } }
      \cup
      { [imageName |-> image, path |-> "relaxed", attempts |-> a] :
          image \in failing \ stuck,
          a \in { n \in relaxAfter..maxAttempts : n = relaxAfter \/ stuck # {} } }
      \cup
      { [imageName |-> image, path |-> "emergency", attempts |-> maxAttempts] :
          image \in IF stuck = {} THEN {}
                    ELSE emergencyImages(validImageFiles, recentHistory) }

\* getNextImage of the weighted variant: it throws without images and on a
\* logged name that is not a string, returns the only image of a catalog of
\* one, and otherwise runs the loop over the last 36 logged names
getNextImageWeighted(validImageFiles, lastImageName, file) ==
  LET recentHistory == getRecentPostingHistoryOf(file, weightedHistorySize)
  IN  IF Len(validImageFiles) = 0
        THEN { [imageName |-> 0, path |-> "threw", attempts |-> 0] }
      ELSE IF Len(validImageFiles) = 1
        THEN { [imageName |-> validImageFiles[1], path |-> "only", attempts |-> 0] }
      ELSE IF ~ namesAreStrings(recentHistory)
        THEN { [imageName |-> 0, path |-> "threw", attempts |-> 0] }
      ELSE loopOutcomes(validImageFiles, lastImageName, recentHistory)

----------------------------------------------------------------------------
(* State                                                                   *)

VARIABLES
  imagequeue,      \* the listing of ./imagequeue: an index of Directories
  calendarMonth,   \* new Date().getMonth() + 1
  clock,           \* the instant of the last invocation, as a counter
  budget,          \* work the behaviour may still do
  historyFile,     \* the content of .large-scale-history.json
  botHistoryFile,  \* the content of .bot-history.json
  lastPostedImage, \* the content of .last_posted_image, 0 when absent or empty
  published,       \* the images posted to Bluesky, oldest first
  lastRun,         \* what the last invocation did
  emitted,         \* the selections returned so far, oldest first
  repository,      \* the head of the git repository the workflow pushes to
  runs,            \* the runs of the workflow
  focus,           \* the run whose workspace the three files above are
  parked,          \* the workspaces of the other runs
  statusCall       \* the call of getNextImage under way and its status line

workflowVars == << repository, runs, focus, parked >>

statusVars == << statusCall >>

vars ==
  << imagequeue, calendarMonth, clock, budget, historyFile, botHistoryFile,
     lastPostedImage, published, lastRun, emitted, repository, runs, focus,
     parked, statusCall >>

Abs(x) == IF x < 0 THEN -x ELSE x

\* Math.floor(Math.random() * n) as a 1-based index, for Math.random() = k / RandomGrain
randomIndex(k, n) == ((k * n) \div RandomGrain) + 1

\* fs.writeFileSync(path, data) opens the file with flag 'w' and then writes:
\* it returns with the file replaced, throws at the open with the file as it
\* was, or throws at the write with the file already truncated
WriteOutcomes == {"written", "refused", "truncated"}

writeFileSync(outcome, old, data, truncated) ==
  CASE outcome = "written"   -> data
    [] outcome = "truncated" -> truncated
    [] OTHER                 -> old

\* availableImages: the seasonally allowed images whose hash is not excluded
availableImagesOf(seasonallyAllowedImages, excludedHashes) ==
  SelectSeq(seasonallyAllowedImages,
            LAMBDA image : hashFilename(image) \notin excludedHashes)

\* the episode filter looking at the last logged episode only
episodeFilteredImagesOfLastPost(availableImages, recentEpisodes) ==
  SelectSeq(availableImages,
            LAMBDA image : EpisodeOf[image] \notin Range(sliceLast(recentEpisodes, 1)))

\* episodeFilteredImages: the available images of none of the last 3 episodes
episodeFilteredImagesOf(availableImages, recentEpisodes) ==
  LET lastEpisodes == Range(sliceLast(recentEpisodes, ClusterWindow))
  IN  SelectSeq(availableImages, LAMBDA image : EpisodeOf[image] \notin lastEpisodes)

\* the three branches with the reset branch drawing from the whole catalog
candidateImagesResetFromCatalog(validImageFiles, seasonallyAllowedImages, availableImages, episodeFilteredImages) ==
  IF Len(availableImages) = 0 THEN validImageFiles
  ELSE IF Len(episodeFilteredImages) > 0 THEN episodeFilteredImages
  ELSE availableImages

\* the array selectedImage is drawn from, in the three branches
candidateImages(validImageFiles, seasonallyAllowedImages, availableImages, episodeFilteredImages) ==
  IF Len(availableImages) = 0 THEN seasonallyAllowedImages
  ELSE IF Len(episodeFilteredImages) > 0 THEN episodeFilteredImages
  ELSE availableImages

\* the reset branch without history.recentlyUsed = []
resetCycleKeepingList(history, now) ==
  [history EXCEPT !.postsThisCycle = JNum(0), !.cycleStartedAt = now]

\* the reset branch: history.recentlyUsed = []; history.postsThisCycle = 0;
\* history.cycleStartedAt = new Date().toISOString()
resetCycle(history, now) ==
  [history EXCEPT !.recentlyUsed = JArr(<<>>),
                  !.postsThisCycle = JNum(0),
                  !.cycleStartedAt = now]

\* the update without history.postsThisCycle++
recordSelectionUncounted(history, selectedHash) ==
  [history EXCEPT
     !.recentlyUsed = JArr(Append(history.recentlyUsed.a, selectedHash))]

\* history.recentlyUsed.push(selectedHash); history.postsThisCycle++
recordSelection(history, selectedHash) ==
  [history EXCEPT
     !.recentlyUsed = JArr(Append(history.recentlyUsed.a, selectedHash)),
     !.postsThisCycle = JNum(history.postsThisCycle.n + 1)]

\* selectNextImage from "Update history" on: the image is drawn from the
\* candidates, its hash is pushed and the history is handed to saveHistory.
\* threw holds when the method ends in a TypeError: extractEpisodeIdentifier
\* applied to the undefined imageName of a log entry, or hashFilename applied
\* to the undefined element drawn from an empty array.
updateHistory(validImageFiles, history, drift, exhausted, path, namelessPost, candidates, k, now) ==
  IF namelessPost \/ candidates = <<>>
    THEN [ threw |-> TRUE, imageName |-> 0, document |-> NoHistoryFile,
           exhausted |-> FALSE, drift |-> FALSE, path |-> "threw" ]
    ELSE LET selectedImage == candidates[randomIndex(k, Len(candidates))]
         IN  [ threw |-> FALSE, imageName |-> selectedImage,
               document |->
                 saveHistory(
                   recordSelection(
                     IF exhausted THEN resetCycle(history, now) ELSE history,
                     hashFilename(selectedImage)),
                   validImageFiles, now),
               exhausted |-> exhausted, drift |-> drift, path |-> path ]

\* selectNextImage from the test of availableImages.length on
selectFromAvailable(validImageFiles, seasonallyAllowedImages, history, drift, namelessPost, availableImages, episodeFilteredImages, k, now) ==
  updateHistory(validImageFiles, history, drift,
                Len(availableImages) = 0,
                IF Len(availableImages) = 0 THEN "reset"
                ELSE IF Len(episodeFilteredImages) > 0 THEN "variety"
                ELSE "clustered",
                namelessPost,
                candidateImages(validImageFiles, seasonallyAllowedImages,
                                availableImages, episodeFilteredImages),
                k, now)

\* selectNextImage from the exclusion set on: excludedHashes, recentPosts,
\* recentEpisodes, availableImages and episodeFilteredImages
selectWithHistory(validImageFiles, seasonallyAllowedImages, history, drift, recentPosts, k, now) ==
  LET availableImages ==
        availableImagesOf(seasonallyAllowedImages, Range(history.recentlyUsed.a))
      recentEpisodes == [i \in DOMAIN recentPosts |-> EpisodeOf[recentPosts[i].s]]
  IN  selectFromAvailable(validImageFiles, seasonallyAllowedImages, history, drift,
                          \E i \in DOMAIN recentPosts : recentPosts[i].t # "string",
                          availableImages,
                          episodeFilteredImagesOf(availableImages, recentEpisodes),
                          k, now)

\* the test of the collection size replacing the history already at a
\* difference of 50
selectAfterLoadResettingAtThreshold(validImageFiles, seasonallyAllowedImages, loaded, recentPosts, k, now) ==
  LET drift == Abs(loaded.totalImagesEver.n - Len(validImageFiles)) >= DriftThreshold
  IN  selectWithHistory(validImageFiles, seasonallyAllowedImages,
                        IF drift THEN createFreshHistory(validImageFiles, now)
                        ELSE loaded,
                        drift, recentPosts, k, now)

\* selectNextImage from the test of the collection size on: a history whose
\* totalImagesEver is more than 50 away from the directory is replaced
selectAfterLoad(validImageFiles, seasonallyAllowedImages, loaded, recentPosts, k, now) ==
  LET drift == Abs(loaded.totalImagesEver.n - Len(validImageFiles)) > DriftThreshold
  IN  selectWithHistory(validImageFiles, seasonallyAllowedImages,
                        IF drift THEN createFreshHistory(validImageFiles, now)
                        ELSE loaded,
                        drift, recentPosts, k, now)

\* selectNextImage up to the write of the history file
selectNextImage(d, m, file, botFile, k, now) ==
  selectAfterLoad(ValidImageFiles[d], SeasonallyAllowed[d, m],
                  loadHistory(file, ValidImageFiles[d], now),
                  getRecentPostingHistory(botFile), k, now)

\* whether fs.writeFileSync throws
writeRaises(outcome) == outcome \in {"refused", "truncated"}

\* whether an exception leaves saveHistory when its write ends with this
\* outcome: the catch logs it and continues
saveHistoryRaises(outcome) == FALSE

\* the same for savePostingHistory, which catches it with a warning
savePostingHistoryRaises(outcome) == FALSE

\* savePostedImageName calls fs.writeFileSync outside any try
savePostedImageNameRaises(outcome) == writeRaises(outcome)

\* the outcomes of a write the run reaches, "none" for one it does not reach
Attempted(reached) == IF reached THEN WriteOutcomes ELSE {"none"}

\* seasonallyAllowedImages.length - history.recentlyUsed.length
availableCount(poolLength, excludedLength) == poolLength - excludedLength

\* (excluded / pool * 100).toFixed(1), in tenths of a percent; with an empty
\* pool the division gives NaN or Infinity, which is -1 here
exclusionRate(excludedLength, poolLength) ==
  IF poolLength = 0 THEN -1
  ELSE (2000 * excludedLength + poolLength) \div (2 * poolLength)

\* the statistics of selectNextImage, from the history as saveHistory left
\* it: Post postsThisCycle - availableCount available (exclusionRate% ...)
cycleInfo(seasonallyAllowedImages, history) ==
  [ postsThisCycle |-> history.postsThisCycle.n,
    availableCount |-> availableCount(Len(seasonallyAllowedImages),
                                      Len(history.recentlyUsed.a)),
    exclusionRate  |-> exclusionRate(Len(history.recentlyUsed.a),
                                     Len(seasonallyAllowedImages)) ]

\* no statistics: the invocation did not reach them
NoCycleInfo == [ postsThisCycle |-> 0, availableCount |-> 0, exclusionRate |-> 0 ]

\* what an invocation did: op the entry point, via the procedure that made
\* the choice, threw whether the selection ended in an exception, saved
\* whether the history file was written, exit the exit status of main, the
\* outcome of each write and the two files as the invocation found them
NoRun ==
  [ op |-> "none", via |-> "none", threw |-> FALSE, imageName |-> 0,
    exhausted |-> FALSE, drift |-> FALSE, path |-> "none", saved |-> FALSE,
    month |-> 0, attempts |-> 0, posted |-> FALSE, recorded |-> FALSE,
    logSaved |-> FALSE, markerSaved |-> FALSE, exit |-> 0,
    historyWrite |-> "none", logWrite |-> "none", markerWrite |-> "none",
    historyBefore |-> NoHistoryFile, logBefore |-> NoBotHistoryFile,
    cycleInfo |-> NoCycleInfo ]

\* no call of getNextImage is under way; position is where the call stands,
\* the other fields are what getStatus has computed for its status line
NoStatusCall ==
  [ position |-> "idle", excludedCount |-> 0, poolSize |-> 0,
    seasonalInfo |-> "none", monthEnds |-> 0 ]

Emission(run) ==
  [ imageName |-> run.imageName, op |-> run.op, via |-> run.via,
    saved |-> run.saved, exhausted |-> run.exhausted, drift |-> run.drift,
    logged |-> run.logSaved ]

\* new LargeScaleImageSelector(validImageFiles).selectNextImage(), with
\* Math.random() = k / RandomGrain
SelectNextImage(k) ==
  /\ budget >= 1
  /\ \E o \in { selectNextImage(imagequeue, calendarMonth, historyFile,
                                botHistoryFile, k, clock + 1) } :
     \E historyWrite \in Attempted(~ o.threw) :
       LET threw == o.threw \/ saveHistoryRaises(historyWrite)
           run == [ NoRun EXCEPT
                      !.op = "selectNextImage", !.via = "selector",
                      !.threw = threw,
                      !.imageName = IF threw THEN 0 ELSE o.imageName,
                      !.exhausted = o.exhausted, !.drift = o.drift,
                      !.cycleInfo =
                         IF threw THEN NoCycleInfo
                         ELSE cycleInfo(SeasonallyAllowed[imagequeue, calendarMonth],
                                        o.document),
                      !.path = o.path, !.saved = historyWrite = "written",
                      !.month = calendarMonth, !.exit = IF threw THEN 1 ELSE 0,
                      !.historyWrite = historyWrite,
                      !.historyBefore = historyFile,
                      !.logBefore = botHistoryFile ]
       IN  /\ historyFile' = writeFileSync(historyWrite, historyFile, o.document,
                                           UnparsableHistoryFile)
           /\ lastRun' = run
           /\ emitted' = IF threw THEN emitted ELSE Append(emitted, Emission(run))
  /\ clock' = clock + 1
  /\ budget' = budget - 1
  /\ UNCHANGED << imagequeue, calendarMonth, botHistoryFile, lastPostedImage, published >>

\* loadPostingHistory: a missing or unparsable file gives { entries: [] },
\* anything JSON.parse accepts is returned as it is
loadPostingHistory(file) ==
  IF file.kind = "json" THEN file
  ELSE [kind |-> "json", entries |-> JArr(<<>>)]

\* postImage of ./clients/at, the publisher: a call returns, and has then
\* published one post, or throws, and has then published none. The first
\* fails calls of a run throw, each later one returns
postImage(fails, attempt) == attempt > fails

\* the calls of postImage that returned among the first attempts calls
returnedCalls(fails, attempts) ==
  Cardinality({ attempt \in 1..attempts : postImage(fails, attempt) })

\* postWithRetry without the return after the call that succeeded
postWithRetryCallingOn(fails) ==
  [ posted   |-> \E attempt \in 1..maxRetries : postImage(fails, attempt),
    attempts |-> maxRetries,
    posts    |-> returnedCalls(fails, maxRetries) ]

\* postWithRetry when the first fails calls of postImage throw: the loop
\* returns at the first call that returns and throws when call maxRetries
\* has thrown. attempts are the calls made, posts those that returned
postWithRetry(fails) ==
  LET succeeding == { attempt \in 1..maxRetries : postImage(fails, attempt) }
      attempts   == IF succeeding = {} THEN maxRetries ELSE Min(succeeding)
  IN  [ posted   |-> succeeding # {},
        attempts |-> attempts,
        posts    |-> returnedCalls(fails, attempts) ]

\* the push with the cut keeping the first 100 entries: slice(0, 100)
pushEntryKeepingOldest(entries, imageName) ==
  LET pushed == Append(entries, Entry(imageName))
  IN  IF Len(pushed) > PostingHistoryCap
        THEN SubSeq(pushed, 1, PostingHistoryCap) ELSE pushed

\* history.entries.push(entry) and the cut to the last 100 entries
pushEntry(entries, imageName) ==
  LET pushed == Append(entries, Entry(imageName))
  IN  IF Len(pushed) > PostingHistoryCap
        THEN sliceLast(pushed, PostingHistoryCap) ELSE pushed

\* one run of the bot: main() with getNextImage, for Math.random() = k / RandomGrain.
\* The run draws the outcome of each write it reaches and the number of
\* calls of postImage that fail.
Main(k) ==
  /\ budget >= 2
  /\ \E o \in { selectNextImage(imagequeue, calendarMonth, historyFile,
                                botHistoryFile, k, clock + 1) } :
     LET validImageFiles == ValidImageFiles[imagequeue]
         noImages == Len(validImageFiles) = 0
         large    == useLargeScaleSelector(validImageFiles)
     IN
     \E historyWrite \in Attempted(large /\ ~ o.threw) :
     LET threw    == large /\ (o.threw \/ saveHistoryRaises(historyWrite))
         selected == ~ noImages /\ ~ threw
         imageName ==
           IF ~ selected THEN 0
           ELSE IF large THEN o.imageName
           ELSE validImageFiles[randomIndex(k, Len(validImageFiles))]
     IN
     \E fails \in (IF selected THEN 0..maxRetries ELSE {0}) :
     LET post     == postWithRetry(fails)
         posted   == selected /\ post.posted
         history  == loadPostingHistory(botHistoryFile)
         recorded == posted /\ history.entries.t = "array"
     IN
     \E logWrite \in Attempted(recorded) :
     \E markerWrite \in Attempted(recorded /\ ~ savePostingHistoryRaises(logWrite)) :
     LET finished == /\ recorded
                     /\ ~ savePostingHistoryRaises(logWrite)
                     /\ ~ savePostedImageNameRaises(markerWrite)
         run == [ NoRun EXCEPT
                    !.op = "main",
                    !.via = IF noImages THEN "none"
                            ELSE IF large THEN "selector" ELSE "random",
                    !.threw = threw,
                    !.imageName = imageName,
                    !.exhausted = selected /\ large /\ o.exhausted,
                    !.drift = selected /\ large /\ o.drift,
                    !.cycleInfo =
                       IF selected /\ large
                         THEN cycleInfo(SeasonallyAllowed[imagequeue, calendarMonth],
                                        o.document)
                         ELSE NoCycleInfo,
                    !.path = IF selected /\ large THEN o.path ELSE "none",
                    !.saved = historyWrite = "written",
                    !.month = calendarMonth,
                    !.attempts = IF selected THEN post.attempts ELSE 0,
                    !.posted = posted, !.recorded = recorded,
                    !.logSaved = logWrite = "written",
                    !.markerSaved = markerWrite = "written",
                    !.exit = IF finished THEN 0 ELSE 1,
                    !.historyWrite = historyWrite, !.logWrite = logWrite,
                    !.markerWrite = markerWrite,
                    !.historyBefore = historyFile,
                    !.logBefore = botHistoryFile ]
     IN  /\ historyFile' = writeFileSync(historyWrite, historyFile, o.document,
                                         UnparsableHistoryFile)
         /\ published' = published \o [i \in 1..(IF selected THEN post.posts ELSE 0) |-> imageName]
         /\ botHistoryFile' =
              writeFileSync(logWrite, botHistoryFile,
                            [ kind |-> "json",
                              entries |-> JArr(pushEntry(history.entries.a, imageName)) ],
                            UnparsableBotHistoryFile)
         /\ lastPostedImage' = writeFileSync(markerWrite, lastPostedImage, imageName, 0)
         /\ lastRun' = run
         /\ emitted' = IF selected THEN Append(emitted, Emission(run)) ELSE emitted
  /\ clock' = clock + 1
  /\ budget' = budget - 2
  /\ UNCHANGED << imagequeue, calendarMonth >>

\* the workflow step get_last_image: jq -r '.entries[-1].imageName // ""' of
\* .bot-history.json, handed to the run as LAST_IMAGE_NAME and by main to
\* getNextImage as options.lastImageName; 0 stands for the empty string
LAST_IMAGE_NAME(file) ==
  IF file.kind # "json" \/ file.entries.t # "array" \/ file.entries.a = <<>> THEN 0
  ELSE file.entries.a[Len(file.entries.a)].imageName.s

\* the fingerprints of all image files of a directory
AllHashes(d) == [i \in DOMAIN ValidImageFiles[d] |-> hashFilename(ValidImageFiles[d][i])]

\* a history document as an earlier run, or anything else, may have left it
PriorHistory(recentlyUsed, totalImagesEver, postsThisCycle, extra) ==
  [ kind |-> "json", recentlyUsed |-> JArr(recentlyUsed),
    totalImagesEver |-> JNum(totalImagesEver),
    postsThisCycle |-> JNum(postsThisCycle),
    cycleStartedAt |-> 0, lastUpdated |-> 0,
    formatVersion |-> JNum(1), extra |-> extra ]

\* contents of .large-scale-history.json a run may find
HistoryFiles(d) ==
  LET n == Len(ValidImageFiles[d])
  IN  { NoHistoryFile,
        UnparsableHistoryFile,
        [PriorHistory(<<>>, n, 0, 0) EXCEPT !.recentlyUsed = JNoArr("undefined")],
        [PriorHistory(<<>>, n, 0, 0) EXCEPT !.postsThisCycle = JNoNum("string")],
        PriorHistory(AllHashes(d), n, n, 0),
        PriorHistory(AllHashes(d), n + DriftThreshold + 1, n, 0),
        PriorHistory(<<"deadbeef">> \o sliceLast(AllHashes(d), 1), n + DriftThreshold, 2, 0),
        PriorHistory(AllHashes(d), n, n, maxFileSize) }

\* what a history file may hold as formatVersion: the current version, other
\* versions, a string, or no such member
FormatVersions == { JNum(1), JNum(0), JNum(2), JNoNum("string"), JNoNum("undefined") }

\* history files of every format version, otherwise well-formed: the last
\* image of the catalog excluded, one post counted
VersionHistoryFiles(d) ==
  { [PriorHistory(sliceLast(AllHashes(d), 1), Len(ValidImageFiles[d]), 1, 0)
       EXCEPT !.formatVersion = v] : v \in FormatVersions }

\* contents of .bot-history.json a run may find
BotHistoryFiles ==
  { NoBotHistoryFile,
    UnparsableBotHistoryFile,
    [kind |-> "json", entries |-> JNoArr("undefined")],
    [kind |-> "json", entries |-> JArr(<<EntryWithoutName>>)],
    [kind |-> "json",
     entries |-> JArr(<<EntryWithoutName, Entry(Id(imgR1)), Entry(Id(imgR3)), Entry(Id(imgH1))>>)],
    [kind |-> "json",
     entries |-> JArr(<<Entry(Id(imgR1)), Entry(Id(imgR3)), Entry(Id(imgH1)), Entry(Id(imgX1))>>)] }

Months == {3, 10, 12}

----------------------------------------------------------------------------
(* The workflow 'bsky-image-bot Post Next Image'                           *)

\* runs of the workflow a behaviour may start
MaxWorkflowRuns == 2

WorkflowRuns == 1..MaxWorkflowRuns

\* on: workflow_dispatch, schedule
WorkflowEvents == {"schedule", "workflow_dispatch"}

\* what a checkout finds: the two history files as last pushed
Commit(revision, history, log) ==
  [revision |-> revision, historyFile |-> history, botHistoryFile |-> log]

\* the workspace of a run: the three files of the working directory
Workspace(history, log, marker) ==
  [historyFile |-> history, botHistoryFile |-> log, lastPostedImage |-> marker]

NoWorkspace == Workspace(NoHistoryFile, NoBotHistoryFile, 0)

\* a run that no event has started
NoWorkflowRun ==
  [ phase |-> "none", event |-> "none", base |-> Commit(0, NoHistoryFile, NoBotHistoryFile),
    lastImage |-> 0 ]

\* no workflow: the engine is called on the files of one working directory
NoWorkflow ==
  /\ repository = Commit(0, NoHistoryFile, NoBotHistoryFile)
  /\ runs = [r \in WorkflowRuns |-> NoWorkflowRun]
  /\ focus = 1
  /\ parked = [r \in WorkflowRuns |-> NoWorkspace]

\* the working directory of the run in focus is set aside
Park(r) ==
  IF focus = r THEN parked
  ELSE [parked EXCEPT ![focus] = Workspace(historyFile, botHistoryFile, lastPostedImage),
                      ![r] = NoWorkspace]

\* an event starts run r on a runner of its own: actions/checkout, and the
\* step get_last_image, whose jq fails on a file that is no JSON
Checkout(r, event) ==
  /\ runs[r].phase = "none"
  /\ runs' = [runs EXCEPT ![r] =
       [ phase |-> IF repository.botHistoryFile.kind = "unparsable"
                     THEN "failed" ELSE "checkedOut",
         event |-> event,
         base  |-> repository,
         lastImage |-> LAST_IMAGE_NAME(repository.botHistoryFile) ]]
  /\ parked' = Park(r)
  /\ focus' = r
  /\ historyFile' = repository.historyFile
  /\ botHistoryFile' = repository.botHistoryFile
  /\ lastPostedImage' = 0
  /\ UNCHANGED << imagequeue, calendarMonth, clock, budget, published, lastRun,
                  emitted, repository >>

\* the runner of run r is the one that takes the next step
Switch(r) ==
  /\ focus # r
  /\ runs[r].phase \in {"checkedOut", "posted"}
  /\ parked' = Park(r)
  /\ focus' = r
  /\ historyFile' = parked[r].historyFile
  /\ botHistoryFile' = parked[r].botHistoryFile
  /\ lastPostedImage' = parked[r].lastPostedImage
  /\ UNCHANGED << imagequeue, calendarMonth, clock, budget, published, lastRun,
                  emitted, repository, runs >>

\* the step 'Post to Bluesky': yarn --silent run start, then
\* cat .last_posted_image; a step that fails ends the job
PostToBluesky(r, k) ==
  /\ focus = r
  /\ runs[r].phase = "checkedOut"
  /\ Main(k)
  /\ runs' = [runs EXCEPT ![r].phase =
       IF lastRun'.exit = 0 /\ lastPostedImage' # 0 THEN "posted" ELSE "failed"]
  /\ UNCHANGED << repository, focus, parked >>

\* the step 'Commit history files': git add -f of the two files, and when
\* something is staged git commit and git push, which the remote rejects
\* when its head is no longer the commit the run checked out
CommitHistoryFiles(r) ==
  /\ focus = r
  /\ runs[r].phase = "posted"
  /\ LET staged == \/ historyFile # runs[r].base.historyFile
                   \/ botHistoryFile # runs[r].base.botHistoryFile
         fastForward == repository.revision = runs[r].base.revision
     IN  /\ runs' = [runs EXCEPT ![r].phase =
              IF ~ staged THEN "unchanged"
              ELSE IF fastForward THEN "pushed" ELSE "rejected"]
         /\ repository' =
              IF staged /\ fastForward
                THEN Commit(repository.revision + 1, historyFile, botHistoryFile)
                ELSE repository
  /\ UNCHANGED << imagequeue, calendarMonth, clock, budget, historyFile,
                  botHistoryFile, lastPostedImage, published, lastRun, emitted,
                  focus, parked >>

\* the history the repository holds when the workflow is first enabled
WorkflowLogs ==
  { NoBotHistoryFile,
    UnparsableBotHistoryFile,
    [kind |-> "json", entries |-> JArr(<<Entry(Id(imgR1)), Entry(Id(imgR3))>>)] }

\* the workflow runs over the three-image catalog, in March
WorkflowDirectories == {1}

WorkflowInit ==
  /\ imagequeue \in WorkflowDirectories
  /\ calendarMonth = 3
  /\ clock = 0
  /\ budget = 2 * MaxWorkflowRuns
  /\ historyFile = NoHistoryFile
  /\ botHistoryFile = NoBotHistoryFile
  /\ lastPostedImage = 0
  /\ published = <<>>
  /\ lastRun = NoRun
  /\ emitted = <<>>
  /\ repository \in { Commit(0, NoHistoryFile, log) : log \in WorkflowLogs }
  /\ runs = [r \in WorkflowRuns |-> NoWorkflowRun]
  /\ focus = 1
  /\ parked = [r \in WorkflowRuns |-> NoWorkspace]
  /\ statusCall = NoStatusCall

WorkflowNext ==
  \/ \E r \in WorkflowRuns, event \in WorkflowEvents :
       Checkout(r, event) /\ UNCHANGED statusVars
  \/ \E r \in WorkflowRuns : Switch(r) /\ UNCHANGED statusVars
  \/ \E r \in WorkflowRuns, k \in 0..(RandomGrain - 1) :
       PostToBluesky(r, k) /\ UNCHANGED statusVars
  \/ \E r \in WorkflowRuns : CommitHistoryFiles(r) /\ UNCHANGED statusVars

WorkflowSpec == WorkflowInit /\ [][WorkflowNext]_vars

Init ==
  /\ imagequeue \in SelectorDirectories
  /\ calendarMonth \in Months
  /\ clock = 0
  /\ budget = MaxRuns
  /\ historyFile \in HistoryFiles(imagequeue)
  /\ botHistoryFile \in BotHistoryFiles
  /\ lastPostedImage = 0
  /\ published = <<>>
  /\ lastRun = NoRun
  /\ emitted = <<>>
  /\ NoWorkflow
  /\ statusCall = NoStatusCall

\* the directories of the behaviours that start from a new installation
FreshDirectories == {1, 3, 4}

\* first run of a new installation: neither file exists
FreshInit ==
  /\ imagequeue \in FreshDirectories
  /\ calendarMonth \in Months
  /\ clock = 0
  /\ budget = MaxFreshRuns
  /\ historyFile = NoHistoryFile
  /\ botHistoryFile = NoBotHistoryFile
  /\ lastPostedImage = 0
  /\ published = <<>>
  /\ lastRun = NoRun
  /\ emitted = <<>>
  /\ NoWorkflow
  /\ statusCall = NoStatusCall

\* the directories of the behaviours that start from a history file of some
\* format version
VersionDirectories == {3, 6}

\* a run that finds a history file of some format version
VersionInit ==
  /\ imagequeue \in VersionDirectories
  /\ calendarMonth \in Months
  /\ clock = 0
  /\ budget = MaxRuns
  /\ historyFile \in VersionHistoryFiles(imagequeue)
  /\ botHistoryFile = NoBotHistoryFile
  /\ lastPostedImage = 0
  /\ published = <<>>
  /\ lastRun = NoRun
  /\ emitted = <<>>
  /\ NoWorkflow
  /\ statusCall = NoStatusCall

\* the catalogs a behaviour with a changing listing moves between: their
\* sizes differ by more than DriftThreshold
DriftDirectories == {2, 6}

\* first run of a new installation whose catalog changes later on
DriftInit ==
  /\ imagequeue \in DriftDirectories
  /\ calendarMonth = 10
  /\ clock = 0
  /\ budget = MaxFreshRuns
  /\ historyFile = NoHistoryFile
  /\ botHistoryFile = NoBotHistoryFile
  /\ lastPostedImage = 0
  /\ published = <<>>
  /\ lastRun = NoRun
  /\ emitted = <<>>
  /\ NoWorkflow
  /\ statusCall = NoStatusCall

\* the listing of ./imagequeue between two invocations: images are added
\* or removed, here the whole catalog is exchanged for another one
CatalogChanges ==
  /\ imagequeue' \in DriftDirectories \ {imagequeue}
  /\ UNCHANGED << calendarMonth, clock, budget, historyFile, botHistoryFile,
                  lastPostedImage, published, lastRun, emitted >>

DriftNext ==
  \/ \E k \in 0..(RandomGrain - 1) :
       SelectNextImage(k) /\ UNCHANGED workflowVars /\ UNCHANGED statusVars
  \/ CatalogChanges /\ UNCHANGED workflowVars /\ UNCHANGED statusVars

DriftSpec == DriftInit /\ [][DriftNext]_vars

Next ==
  \/ \E k \in 0..(RandomGrain - 1) :
       SelectNextImage(k) /\ UNCHANGED workflowVars /\ UNCHANGED statusVars
  \/ \E k \in 0..(RandomGrain - 1) :
       Main(k) /\ UNCHANGED workflowVars /\ UNCHANGED statusVars

Spec == Init /\ [][Next]_vars

VersionSpec == VersionInit /\ [][Next]_vars

\* a history document with other members besides, size characters long
Padded(recentlyUsed, totalImagesEver, postsThisCycle, size) ==
  PriorHistory(recentlyUsed, totalImagesEver, postsThisCycle,
               size - JsonLength(PriorHistory(recentlyUsed, totalImagesEver, postsThisCycle, 0)))

\* contents of .large-scale-history.json around the limit of 50 KB: with
\* no exclusions, with one exclusion less than the cap, and with as many
\* as the cap and a count of posts that is about to need one digit more;
\* and a document that excludes every image and whose totalImagesEver is
\* 50 away from the catalog
HistoryFilesAroundLimit(d) ==
  LET n    == Len(ValidImageFiles[d])
      cap  == recentExclusionSize(ValidImageFiles[d])
      some == lastElements(AllHashes(d), IF cap > 0 THEN cap - 1 ELSE 0)
  IN  { Padded(<<>>, n, 0, maxFileSize),
        Padded(<<>>, n, 0, maxFileSize + 1),
        Padded(some, n, Len(some), maxFileSize),
        Padded(lastElements(AllHashes(d), cap), n, 9, maxFileSize),
        PriorHistory(AllHashes(d), n + DriftThreshold, n, 0) }

\* the logs of the runs that start around the limit
SizeLogs ==
  { NoBotHistoryFile,
    [kind |-> "json",
     entries |-> JArr(<<Entry(Id(imgR1)), Entry(Id(imgR3)), Entry(Id(imgH1)), Entry(Id(imgX1))>>)] }

\* runs over every directory that start with any history file
SizeInit ==
  /\ imagequeue \in SelectorDirectories
  /\ calendarMonth \in Months
  /\ clock = 0
  /\ budget = MaxRuns
  /\ historyFile \in HistoryFiles(imagequeue) \cup HistoryFilesAroundLimit(imagequeue)
  /\ botHistoryFile \in SizeLogs
  /\ lastPostedImage = 0
  /\ published = <<>>
  /\ lastRun = NoRun
  /\ emitted = <<>>
  /\ NoWorkflow
  /\ statusCall = NoStatusCall

SizeSpec == SizeInit /\ [][Next]_vars

\* the log holding these images, oldest first
LogOf(names) == [kind |-> "json", entries |-> JArr([i \in DOMAIN names |-> Entry(names[i])])]

\* logs whose last emissions are of the episodes of the small catalogs
ClusterLogs ==
  { NoBotHistoryFile,
    LogOf(<<Id(imgH1), Id(imgR3), Id(imgR1)>>),
    LogOf(<<Id(imgR1), Id(imgR3)>>),
    LogOf(<<Id(imgR3), Id(imgR1), Id(imgR2)>>),
    LogOf(<<Id(imgX2), Id(imgX1), Id(imgH1), Id(imgH2)>>) }

ClusterDirectories == {1, 3}

\* runs over the small catalogs that start with a log of their episodes
ClusterInit ==
  /\ imagequeue \in ClusterDirectories
  /\ calendarMonth \in Months
  /\ clock = 0
  /\ budget = MaxRuns
  /\ historyFile \in { NoHistoryFile,
                        PriorHistory(AllHashes(imagequeue), Len(ValidImageFiles[imagequeue]),
                                     Len(ValidImageFiles[imagequeue]), 0) }
  /\ botHistoryFile \in ClusterLogs
  /\ lastPostedImage = 0
  /\ published = <<>>
  /\ lastRun = NoRun
  /\ emitted = <<>>
  /\ NoWorkflow
  /\ statusCall = NoStatusCall

ClusterSpec == ClusterInit /\ [][Next]_vars

\* how often the month may end while the behaviour lasts
MaxMonthEnds == 1

\* getNextImage on a large collection, up to the return of selectNextImage
GetNextImageSelect(k) ==
  /\ statusCall.position \in {"idle", "returned"}
  /\ useLargeScaleSelector(ValidImageFiles[imagequeue])
  /\ SelectNextImage(k)
  /\ statusCall' = [ NoStatusCall EXCEPT
                       !.position = IF lastRun'.threw THEN "idle" ELSE "getStatus",
                       !.monthEnds = statusCall.monthEnds ]
  /\ UNCHANGED workflowVars

\* getStatus, first half: loadHistory and filterImagesBySeasonalRules, which
\* reads the clock
GetStatusCounts ==
  /\ statusCall.position = "getStatus"
  /\ statusCall' =
       [ statusCall EXCEPT
           !.position = "seasonalInfo",
           !.excludedCount =
              Len(loadHistory(historyFile, ValidImageFiles[imagequeue], clock).recentlyUsed.a),
           !.poolSize = Len(SeasonallyAllowed[imagequeue, calendarMonth]) ]
  /\ UNCHANGED << imagequeue, calendarMonth, clock, budget, historyFile, botHistoryFile,
                  lastPostedImage, published, lastRun, emitted >>
  /\ UNCHANGED workflowVars

\* getStatus, second half: new Date() once more for the seasonal mode of
\* the status line
GetStatusSeasonalInfo ==
  /\ statusCall.position = "seasonalInfo"
  /\ statusCall' =
       [ statusCall EXCEPT
           !.position = "returned",
           !.seasonalInfo = IF calendarMonth = 10 THEN "halloween"
                            ELSE IF calendarMonth = 12 THEN "christmas"
                            ELSE "nonSeasonal" ]
  /\ UNCHANGED << imagequeue, calendarMonth, clock, budget, historyFile, botHistoryFile,
                  lastPostedImage, published, lastRun, emitted >>
  /\ UNCHANGED workflowVars

\* the clock passes the end of the month, at any point of a call or between
\* two calls
MonthEnds ==
  /\ statusCall.monthEnds < MaxMonthEnds
  /\ calendarMonth' = (calendarMonth % 12) + 1
  /\ statusCall' = [statusCall EXCEPT !.monthEnds = statusCall.monthEnds + 1]
  /\ UNCHANGED << imagequeue, clock, budget, historyFile, botHistoryFile,
                  lastPostedImage, published, lastRun, emitted >>
  /\ UNCHANGED workflowVars

\* the months before and of the two seasons
StatusMonths == {9, 10, 11, 12}

\* calls of getNextImage on the large collection, around the end of a month
StatusInit ==
  /\ imagequeue = 6
  /\ calendarMonth \in StatusMonths
  /\ clock = 0
  /\ budget = MaxRuns
  /\ historyFile \in HistoryFiles(imagequeue)
  /\ botHistoryFile \in SizeLogs
  /\ lastPostedImage = 0
  /\ published = <<>>
  /\ lastRun = NoRun
  /\ emitted = <<>>
  /\ NoWorkflow
  /\ statusCall = NoStatusCall

StatusNext ==
  \/ \E k \in 0..(RandomGrain - 1) : GetNextImageSelect(k)
  \/ GetStatusCounts
  \/ GetStatusSeasonalInfo
  \/ MonthEnds

StatusSpec == StatusInit /\ [][StatusNext]_vars

\* the weighted variant of getNextImage({ lastImageName }), with the content
\* of .last_posted_image as lastImageName: it reads .bot-history.json and
\* writes no file. main calls it once in the life of the process;
\* lastRun.attempts is the count of the loop
GetNextImageWeighted ==
  /\ lastRun.op = "none"
  /\ \E o \in getNextImageWeighted(ValidImageFiles[imagequeue], lastPostedImage,
                                   botHistoryFile) :
       lastRun' = [ NoRun EXCEPT !.op = "getNextImage", !.via = "weighted",
                                 !.threw = o.path = "threw",
                                 !.exit = IF o.path = "threw" THEN 1 ELSE 0,
                                 !.imageName = o.imageName,
                                 !.path = o.path,
                                 !.attempts = o.attempts,
                                 !.month = calendarMonth,
                                 !.historyBefore = historyFile,
                                 !.logBefore = botHistoryFile ]
  /\ UNCHANGED << imagequeue, calendarMonth, clock, budget, historyFile,
                  botHistoryFile, lastPostedImage, published, emitted >>
  /\ UNCHANGED workflowVars
  /\ UNCHANGED statusVars

\* logs that reach beyond the last 3 and the last 6 posts, and logs the
\* variant cannot use
WeightedLogs ==
  { NoBotHistoryFile,
    UnparsableBotHistoryFile,
    LogOf(<<Id(imgR3), Id(imgR1), Id(imgR2)>>),
    LogOf(<<Id(imgR1), Id(imgR3), Id(imgH1), Id(imgX1)>>),
    LogOf(<<Id(imgR1), Id(imgX2), Id(imgR4), Id(imgR3), Id(imgH1), Id(imgX1), Id(imgR4)>>),
    [kind |-> "json", entries |-> JArr(<<Entry(Id(imgR1)), EntryWithoutName>>)] }

\* the catalogs the loop is run on
WeightedDirectories == {1, 2, 3, 4, 5}

WeightedInit ==
  /\ imagequeue \in WeightedDirectories
  /\ calendarMonth = 3
  /\ clock = 0
  /\ budget = 0
  /\ historyFile = NoHistoryFile
  /\ botHistoryFile \in WeightedLogs
  /\ lastPostedImage \in {0, Id(imgR1), Id(imgH1)}
  /\ published = <<>>
  /\ lastRun = NoRun
  /\ emitted = <<>>
  /\ NoWorkflow
  /\ statusCall = NoStatusCall

WeightedSpec == WeightedInit /\ [][GetNextImageWeighted]_vars

\* catalogs of no image, of a few, of exactly 1000 and of 1001 images
ThresholdDirectories == {2, 5, 6, 7}

\* runs over the catalogs around the threshold of getNextImage
ThresholdInit ==
  /\ imagequeue \in ThresholdDirectories
  /\ calendarMonth \in Months
  /\ clock = 0
  /\ budget = MaxRuns
  /\ historyFile \in { NoHistoryFile, UnparsableHistoryFile,
                        PriorHistory(AllHashes(imagequeue), Len(ValidImageFiles[imagequeue]),
                                     Len(ValidImageFiles[imagequeue]), 0) }
  /\ botHistoryFile = NoBotHistoryFile
  /\ lastPostedImage = 0
  /\ published = <<>>
  /\ lastRun = NoRun
  /\ emitted = <<>>
  /\ NoWorkflow
  /\ statusCall = NoStatusCall

ThresholdSpec == ThresholdInit /\ [][Next]_vars

\* a log of n entries, all of different images
LongLog(n) == [kind |-> "json", entries |-> JArr([i \in 1..n |-> Entry(BigIds[i])])]

\* logs around the cap of 100 entries, and the logs a run cannot read
LogsAroundCap ==
  { LongLog(PostingHistoryCap - 2), LongLog(PostingHistoryCap - 1),
    LongLog(PostingHistoryCap), LongLog(PostingHistoryCap + 1),
    NoBotHistoryFile, UnparsableBotHistoryFile }

\* runs of the bot over the three-image catalog that start with a long log
LogInit ==
  /\ imagequeue = 1
  /\ calendarMonth \in {3, 10}
  /\ clock = 0
  /\ budget = MaxFreshRuns
  /\ historyFile = NoHistoryFile
  /\ botHistoryFile \in LogsAroundCap
  /\ lastPostedImage = 0
  /\ published = <<>>
  /\ lastRun = NoRun
  /\ emitted = <<>>
  /\ NoWorkflow
  /\ statusCall = NoStatusCall

LogSpec == LogInit /\ [][Next]_vars

FreshSpec == FreshInit /\ [][Next]_vars

----------------------------------------------------------------------------
(* Claims                                                                  *)

\* every invocation so far was a direct call of selectNextImage that
\* returned a selection and wrote its history
OnlySavedSelectorCalls ==
  /\ clock = Len(emitted)
  /\ \A i \in DOMAIN emitted :
       emitted[i].op = "selectNextImage" /\ emitted[i].saved

\* the eligible pool of the catalog in the current month
EligiblePool == SeasonallyAllowed[imagequeue, calendarMonth]

Catalog == ValidImageFiles[imagequeue]

InSeq(x, s) == \E i \in DOMAIN s : s[i] = x

\* C1: from a fresh rotation state, with the catalog and the month fixed and
\* no clustering log, the first N emissions of selectNextImage over an
\* eligible pool of N items are pairwise distinct.
C1_NoRepeatBeforeExhaustion ==
  OnlySavedSelectorCalls =>
    \A i, j \in DOMAIN emitted :
      (i < j /\ j <= Len(EligiblePool)) =>
        emitted[i].imageName # emitted[j].imageName

\* C2: whenever the catalog is not empty, selectNextImage completes and
\* returns a member of the catalog, whatever the month and the persisted state.
C2_ReturnsCatalogMember ==
  (lastRun.op = "selectNextImage" /\ Len(Catalog) > 0) =>
    /\ ~ lastRun.threw
    /\ InSeq(lastRun.imageName, Catalog)

\* C3: after every save the persisted recentlyUsed has at most
\* min(floor(N * 0.15), 2000) entries, N >= 1 the size of the catalog.
C3_ExclusionListWithinCap ==
  (lastRun.via = "selector" /\ lastRun.saved /\ Len(Catalog) >= 1) =>
    Len(historyFile.recentlyUsed.a) <= recentExclusionSize(Catalog)

\* the seasonal groups of the images of every catalog
GroupsOf ==
  Tabulated([d \in DOMAIN Directories |->
     { SeasonTypeOf[ValidImageFiles[d][i]] : i \in DOMAIN ValidImageFiles[d] }])

\* the catalog of directory d holds an image of this seasonal group
HasGroup(d, type) == type \in GroupsOf[d]

OffSeasonMonths == (1..12) \ {10, 12}

\* in every month but October and December the eligible pool of a catalog
\* with a non-seasonal image holds non-seasonal images only
OffSeasonPoolsArePlain ==
  \A d \in DOMAIN Directories, m \in OffSeasonMonths :
    HasGroup(d, "none") =>
      \A i \in DOMAIN SeasonallyAllowed[d, m] :
        SeasonTypeOf[SeasonallyAllowed[d, m][i]] = "none"

\* C4: in a month other than October and December, with a non-seasonal
\* image in the catalog, no call of selectNextImage returns a Halloween or
\* Christmas image, on any of its paths and whatever the persisted state.
C4_NoSeasonalImageOffSeason ==
  /\ OffSeasonPoolsArePlain
  /\ ( /\ lastRun.via = "selector"
       /\ ~ lastRun.threw
       /\ lastRun.month \in OffSeasonMonths
       /\ HasGroup(imagequeue, "none") )
     => SeasonTypeOf[lastRun.imageName] = "none"

\* a reset in March over a catalog that holds seasonal images too
C4_Witness ==
  /\ lastRun.via = "selector"
  /\ lastRun.path = "reset"
  /\ lastRun.month = 3
  /\ HasGroup(imagequeue, "halloween")
  /\ HasGroup(imagequeue, "christmas")
  /\ SeasonTypeOf[lastRun.imageName] = "none"

\* C5: in October with a Halloween image in the catalog every selection is a
\* Halloween image, in December with a Christmas image in the catalog every
\* selection is a Christmas image, on every path of selectNextImage.
C5_OnlyTheSeasonInSeason ==
  (lastRun.via = "selector" /\ ~ lastRun.threw) =>
    /\ (lastRun.month = 10 /\ HasGroup(imagequeue, "halloween"))
         => SeasonTypeOf[lastRun.imageName] = "halloween"
    /\ (lastRun.month = 12 /\ HasGroup(imagequeue, "christmas"))
         => SeasonTypeOf[lastRun.imageName] = "christmas"

\* the clustering fallback in October over a catalog with other images
C5_Witness ==
  /\ lastRun.via = "selector"
  /\ lastRun.path = "clustered"
  /\ lastRun.month = 10
  /\ HasGroup(imagequeue, "none")
  /\ SeasonTypeOf[lastRun.imageName] = "halloween"

\* the runs of the C6 scenario: the first three return three different
\* images of the catalog without a reset, the fourth resets and returns any
FourRunPattern ==
  \A i \in DOMAIN emitted :
    /\ InSeq(emitted[i].imageName, Catalog)
    /\ i <= 3 => /\ ~ emitted[i].exhausted
                 /\ \A j \in 1..(i - 1) : emitted[j].imageName # emitted[i].imageName
    /\ i = 4 => emitted[i].exhausted

\* a run recorded its emission: main appended it to the log, a direct call
\* of the selector saved its history
RecordedItsEmission(e) == IF e.op = "main" THEN e.logged ELSE e.saved

C7_ResetStartsNewCycle ==
  (lastRun.via = "selector" /\ ~ lastRun.threw /\ lastRun.exhausted) =>
    /\ InSeq(lastRun.imageName, SeasonallyAllowed[imagequeue, lastRun.month])
    /\ lastRun.saved =>
         /\ historyFile.recentlyUsed.a = << hashFilename(lastRun.imageName) >>
         /\ historyFile.postsThisCycle.n = 1
         /\ historyFile.cycleStartedAt = clock

\* a reset over a history that excluded several images
C7_Witness ==
  /\ lastRun.via = "selector"
  /\ lastRun.exhausted
  /\ lastRun.saved
  /\ Len(lastRun.historyBefore.recentlyUsed.a) > 1
  /\ lastRun.historyBefore.postsThisCycle.n > 1

\* C8: from a fresh state and with every save succeeding, over an eligible
\* pool larger than the cap >= 1, no image is returned twice within
\* cap + 1 consecutive emissions.
C8_NoRepeatWithinCapPlusOne ==
  ( /\ OnlySavedSelectorCalls
    /\ recentExclusionSize(Catalog) >= 1
    /\ Len(EligiblePool) > recentExclusionSize(Catalog) )
  => \A i, j \in DOMAIN emitted :
       (i < j /\ j - i <= recentExclusionSize(Catalog)) =>
         emitted[i].imageName # emitted[j].imageName

\* with a cap of 2 the fourth emission repeats the first
C8_Witness ==
  /\ OnlySavedSelectorCalls
  /\ recentExclusionSize(Catalog) = 2
  /\ Len(EligiblePool) > 2
  /\ Len(emitted) = 4
  /\ emitted[4].imageName = emitted[1].imageName

\* the history file holds text that is no JSON, or JSON without the fields
\* of a history
CorruptHistory(file) ==
  \/ file.kind = "unparsable"
  \/ file.kind = "json" /\ ~ isValidHistory(file)

\* the log holds text that is no JSON, or JSON without an entries array or
\* with an entry that has no imageName
CorruptLog(file) ==
  \/ file.kind = "unparsable"
  \/ /\ file.kind = "json"
     /\ \/ file.entries.t # "array"
        \/ \E i \in DOMAIN file.entries.a : file.entries.a[i].imageName.t # "string"

HistoryWriteFailed == writeRaises(lastRun.historyWrite)
LogWriteFailed == writeRaises(lastRun.logWrite)

\* a failed write of the history file does not keep the selection from the
\* caller, and a failed write of either file does not fail the run
WriteFailureIsSwallowed ==
  /\ HistoryWriteFailed =>
       /\ ~ lastRun.threw
       /\ InSeq(lastRun.imageName, Catalog)
       /\ lastRun.op = "selectNextImage" => lastRun.exit = 0
       /\ (lastRun.op = "main" /\ lastRun.markerWrite = "written") => lastRun.exit = 0
  /\ LogWriteFailed =>
       /\ lastRun.posted
       /\ lastRun.markerWrite # "none"
       /\ lastRun.markerWrite = "written" => lastRun.exit = 0

ExclusionsInUse ==
  LET loaded == loadHistory(lastRun.historyBefore, Catalog, clock)
  IN  IF Abs(loaded.totalImagesEver.n - Len(Catalog)) > DriftThreshold THEN {}
      ELSE Range(loaded.recentlyUsed.a)

\* the images of the eligible pool the last call found not excluded
NonExcludedEligible ==
  LET excluded == ExclusionsInUse
  IN  { image \in Range(SeasonallyAllowed[imagequeue, lastRun.month]) :
          hashFilename(image) \notin excluded }

\* the names of the last n entries of the log the last call found, none when
\* the log cannot be read
LastLogged(n) ==
  LET file == lastRun.logBefore
      count == Len(file.entries.a)
  IN  IF file.kind # "json" \/ file.entries.t # "array" THEN {}
      ELSE { file.entries.a[i].imageName.s : i \in { j \in 1..count : j > count - n } }

\* the episode tags of the last 3 logged emissions
LastThreeTags == { EpisodeOf[name] : name \in LastLogged(3) }

\* C11: when a call of the selector does not reset the cycle and some
\* non-excluded eligible image is of an episode other than those of the last
\* 3 logged emissions, the episode of the selected image is none of those:
\* a selection of one of these episodes means that every non-excluded
\* eligible image was of one of them.
C11_AvoidsLastThreeEpisodes ==
  ( /\ lastRun.via = "selector"
    /\ ~ lastRun.threw
    /\ ~ lastRun.exhausted
    /\ EpisodeOf[lastRun.imageName] \in LastThreeTags )
  => LET tags == LastThreeTags
     IN  \A image \in NonExcludedEligible : EpisodeOf[image] \in tags

\* the guard had something to veto: three episodes are logged, an available
\* image is of one of them, and the selection is of another
C11_Witness ==
  /\ lastRun.via = "selector"
  /\ ~ lastRun.threw
  /\ lastRun.path = "variety"
  /\ Cardinality(LastThreeTags) = 3
  /\ \E image \in NonExcludedEligible : EpisodeOf[image] \in LastThreeTags
  /\ EpisodeOf[lastRun.imageName] \notin LastThreeTags

Hint == LAST_IMAGE_NAME(lastRun.logBefore)

\* C13: a run of the bot that is given the image of the prior run as
\* LAST_IMAGE_NAME, over a catalog whose eligible pool holds another image,
\* does not select that image again.
C13_NeverReturnsTheHint ==
  ( /\ lastRun.op = "main"
    /\ lastRun.imageName # 0
    /\ Hint # 0
    /\ \E image \in Range(SeasonallyAllowed[imagequeue, lastRun.month]) : image # Hint )
  => lastRun.imageName # Hint

\* run r has read the persisted state and has not yet committed it
InFlight(r) == runs[r].phase \in {"checkedOut", "posted"}

\* C14: the workflow never has two runs that are both between reading the
\* persisted state (the checkout) and committing it (the push).
C14_NoOverlappingRuns ==
  \A r1, r2 \in WorkflowRuns : (InFlight(r1) /\ InFlight(r2)) => r1 = r2

\* the month's seasonal group is missing from the non-empty catalog of
\* directory d: October without Halloween, December without Christmas
DegradedSeasonal(d, m) ==
  /\ Len(ValidImageFiles[d]) > 0
  /\ \/ m = 10 /\ ~ HasGroup(d, "halloween")
     \/ m = 12 /\ ~ HasGroup(d, "christmas")

PreviousLog == loadPostingHistory(lastRun.logBefore).entries.a

\* the last 100 entries of the previous log followed by the new entry
AppendedAndTrimmed ==
  LET all  == PreviousLog \o << Entry(lastRun.imageName) >>
      keep == IF Len(all) > PostingHistoryCap THEN PostingHistoryCap ELSE Len(all)
  IN  [i \in 1..keep |-> all[Len(all) - keep + i]]

SuccessfulRun == lastRun.op = "main" /\ lastRun.exit = 0

\* C16: after every successful run the log is the last 100 entries of the
\* previous log followed by the new entry: appended at the end, cut at the
\* front, never longer than 100 and never emptied or reset.
C16_LogIsAppendedAndTrimmed ==
  SuccessfulRun =>
    /\ botHistoryFile.kind = "json"
    /\ botHistoryFile.entries = JArr(AppendedAndTrimmed)
    /\ Len(botHistoryFile.entries.a) <= PostingHistoryCap

\* C16 as amended: the same after every successful run whose write of the
\* log succeeded; a refused write leaves the file as it was and an
\* interrupted one leaves a file the next run cannot parse.
C16_LogIsAppendedAndTrimmedWhenWritten ==
  SuccessfulRun =>
    CASE lastRun.logWrite = "written" ->
           /\ botHistoryFile.kind = "json"
           /\ botHistoryFile.entries = JArr(AppendedAndTrimmed)
           /\ Len(botHistoryFile.entries.a) <= PostingHistoryCap
      [] lastRun.logWrite = "truncated" -> botHistoryFile = UnparsableBotHistoryFile
      [] OTHER -> botHistoryFile = lastRun.logBefore

\* a run that found 100 entries dropped the oldest and appended its own
C16_Witness ==
  /\ SuccessfulRun
  /\ lastRun.logWrite = "written"
  /\ Len(PreviousLog) = PostingHistoryCap
  /\ Len(botHistoryFile.entries.a) = PostingHistoryCap
  /\ botHistoryFile.entries.a[1] = PreviousLog[2]
  /\ botHistoryFile.entries.a[PostingHistoryCap] = Entry(lastRun.imageName)

\* the file exists, is at most 50 KB long, parses and has the three
\* required members with their types
StoredStateIsUsable(file) ==
  /\ file.kind = "json"
  /\ JsonLength(file) <= maxFileSize
  /\ file.recentlyUsed.t = "array"
  /\ file.totalImagesEver.t = "number"
  /\ file.postsThisCycle.t = "number"

\* what loadHistory returned to the last call of selectNextImage
LoadedHistory == loadHistory(lastRun.historyBefore, Catalog, clock)

\* C17: loadHistory never raises; it returns the stored state unchanged when
\* the file exists, is at most 50 KB, parses and passes validation, and a
\* fresh state (empty exclusion list, postsThisCycle 0, totalImagesEver the
\* size of the catalog) when the file is absent, larger, unparsable or invalid.
\* A call that raises does so over a log entry without a name or over an
\* empty eligible pool, whatever the history file holds.
C17_LoadHistoryAcceptsOrStartsFresh ==
  lastRun.via = "selector" =>
    /\ IF StoredStateIsUsable(lastRun.historyBefore)
         THEN LoadedHistory = lastRun.historyBefore
         ELSE /\ LoadedHistory.kind = "json"
              /\ LoadedHistory.recentlyUsed = JArr(<<>>)
              /\ LoadedHistory.postsThisCycle = JNum(0)
              /\ LoadedHistory.totalImagesEver = JNum(Len(Catalog))
    /\ lastRun.threw => \/ 0 \in LastLogged(historySize)
                        \/ SeasonallyAllowed[imagequeue, lastRun.month] = <<>>

\* a stored state of exactly 50 KB was accepted and the call went on with
\* its exclusions
C17_Witness ==
  /\ lastRun.via = "selector"
  /\ ~ lastRun.threw
  /\ JsonLength(lastRun.historyBefore) = maxFileSize
  /\ Len(lastRun.historyBefore.recentlyUsed.a) > 0
  /\ LoadedHistory = lastRun.historyBefore

\* C18: after every save the serialized history is at most 50 KB long, so
\* that the next loadHistory does not reject it as too large.
C18_SavedHistoryFitsTheLimit ==
  (lastRun.via = "selector" /\ lastRun.saved) =>
    /\ JsonLength(historyFile) <= maxFileSize
    /\ loadHistory(historyFile, Catalog, clock + 1) = historyFile

\* the Halloween images of the catalog
HalloweenItems == { image \in Range(Catalog) : SeasonTypeOf[image] = "halloween" }

\* C19: in October, with the catalog unchanged, every Halloween image of the
\* catalog is emitted once before any Halloween image is emitted a second time.
C19_HalloweenItemsOnceBeforeTwice ==
  (calendarMonth = 10 /\ OnlySavedSelectorCalls) =>
    \A i, j \in DOMAIN emitted :
      ( /\ i < j
        /\ emitted[i].imageName = emitted[j].imageName
        /\ emitted[j].imageName \in HalloweenItems )
      => HalloweenItems \subseteq { emitted[m].imageName : m \in 1..(j - 1) }

\* the images of the catalog of directory d that belong to a seasonal group
SeasonalItems(d) == { image \in Range(ValidImageFiles[d]) : SeasonTypeOf[image] # "none" }

\* the seasonal group month m makes active, "none" outside October and December
ActiveGroup(m) == IF m = 10 THEN "halloween" ELSE IF m = 12 THEN "christmas" ELSE "none"

\* the images of the catalog of directory d in the group month m makes active
ActiveItems(d, m) ==
  { image \in Range(ValidImageFiles[d]) :
      ActiveGroup(m) # "none" /\ SeasonTypeOf[image] = ActiveGroup(m) }

EligibleItems(d, m) == Range(SeasonallyAllowed[d, m])

\* C20: for every catalog and every month the seasonal images together with
\* the eligible set of the seasonal filter are the whole catalog, and the
\* two share no image outside the month's active group.
C20_SeasonalPartition ==
  \A m \in 1..12 :
    /\ SeasonalItems(imagequeue) \cup EligibleItems(imagequeue, m) = Range(Catalog)
    /\ (SeasonalItems(imagequeue) \cap EligibleItems(imagequeue, m))
         \subseteq ActiveItems(imagequeue, m)

\* the seasonal filter on every catalog in every month: outside October and
\* December the eligible set is the catalog without its seasonal images; in
\* October and December it is the active group alone when the catalog has
\* one, and the whole catalog when it has none
SeasonalFilterByCases ==
  \A d \in DOMAIN Directories, m \in 1..12 :
    IF ActiveGroup(m) = "none"
      THEN /\ SeasonalItems(d) \cup EligibleItems(d, m) = Range(ValidImageFiles[d])
           /\ SeasonalItems(d) \cap EligibleItems(d, m) = {}
    ELSE IF ActiveItems(d, m) # {}
      THEN EligibleItems(d, m) = ActiveItems(d, m)
    ELSE EligibleItems(d, m) = Range(ValidImageFiles[d])

\* C20 as amended: the seasonal images and the eligible set divide the
\* catalog in the months other than October and December only; in those two
\* the eligible set is the active group, or the whole catalog when the
\* group is empty.  Every selection is taken from the eligible set.
C20_SeasonalPartitionOffSeason ==
  /\ SeasonalFilterByCases
  /\ (lastRun.via = "selector" /\ ~ lastRun.threw)
       => InSeq(lastRun.imageName, SeasonallyAllowed[imagequeue, lastRun.month])

\* a selection in October from a catalog that holds images of both groups
\* and others: the eligible set and the seasonal images leave the others out
C20_Witness ==
  /\ lastRun.via = "selector"
  /\ ~ lastRun.threw
  /\ lastRun.month = 10
  /\ lastRun.imageName \in ActiveItems(imagequeue, 10)
  /\ SeasonalItems(imagequeue) \cup EligibleItems(imagequeue, 10) # Range(Catalog)
  /\ ActiveItems(imagequeue, 12) # {}

\* the seasonal mode the rule set of month m reports
ModeOf(m) == IF m = 10 THEN "halloween" ELSE IF m = 12 THEN "christmas" ELSE "nonSeasonal"

\* C21: one seasonal rule set, fixed by the month of the invocation, governs
\* the whole call of getNextImage: the mode and the pool size of the status
\* line are those of the rule set that filtered the candidates of the
\* selection, wherever the clock advances during the call.
C21_OneRuleSetPerInvocation ==
  statusCall.position = "returned" =>
    /\ statusCall.seasonalInfo = ModeOf(lastRun.month)
    /\ statusCall.poolSize = Len(SeasonallyAllowed[imagequeue, lastRun.month])

\* the call replaced the loaded history by a fresh one: the document it
\* wrote counts one post and excludes the selection alone
StartedFresh ==
  /\ historyFile.recentlyUsed = JArr(<< hashFilename(lastRun.imageName) >>)
  /\ historyFile.postsThisCycle = JNum(1)
  /\ historyFile.totalImagesEver = JNum(Len(Catalog))

\* the call kept the loaded history: it selected outside the loaded
\* exclusions and counted on from the loaded postsThisCycle
KeptLoaded ==
  /\ hashFilename(lastRun.imageName) \notin Range(LoadedHistory.recentlyUsed.a)
  /\ historyFile.postsThisCycle = JNum(LoadedHistory.postsThisCycle.n + 1)
  /\ historyFile.totalImagesEver = LoadedHistory.totalImagesEver

\* a call of the selector that wrote its history and did not complete a cycle
SavedWithoutCycleReset ==
  lastRun.via = "selector" /\ ~ lastRun.threw /\ lastRun.saved /\ ~ lastRun.exhausted

\* C22: the loaded rotation state is replaced by a fresh one exactly when
\* the size of the eligible pool differs from the stored totalImagesEver by
\* more than 50; otherwise the loaded exclusions are kept.
C22_DriftOfTheEligiblePool ==
  SavedWithoutCycleReset =>
    IF Abs(LoadedHistory.totalImagesEver.n
           - Len(SeasonallyAllowed[imagequeue, lastRun.month])) > DriftThreshold
      THEN lastRun.drift /\ StartedFresh
      ELSE ~ lastRun.drift /\ KeptLoaded

\* C22 as amended: the same with the size of the whole catalog in the place
\* of the size of the eligible pool.
C22_DriftOfTheCatalog ==
  SavedWithoutCycleReset =>
    IF Abs(LoadedHistory.totalImagesEver.n - Len(Catalog)) > DriftThreshold
      THEN lastRun.drift /\ StartedFresh
      ELSE ~ lastRun.drift /\ KeptLoaded

\* a stored size exactly 50 away from the catalog was kept with its
\* exclusions
C22_Witness ==
  /\ SavedWithoutCycleReset
  /\ Abs(LoadedHistory.totalImagesEver.n - Len(Catalog)) = DriftThreshold
  /\ Len(LoadedHistory.recentlyUsed.a) > 0
  /\ ~ lastRun.drift
  /\ KeptLoaded

\* C23: a call that completes a cycle applies the clustering guard to the
\* whole eligible pool it retakes: when the pool holds an image of an episode
\* other than those of the last 3 logged emissions, the selection is of such
\* an episode.
C23_GuardAppliedAfterCycleReset ==
  ( /\ lastRun.via = "selector"
    /\ ~ lastRun.threw
    /\ lastRun.exhausted
    /\ EpisodeOf[lastRun.imageName] \in LastThreeTags )
  => LET tags == LastThreeTags
     IN  \A image \in Range(SeasonallyAllowed[imagequeue, lastRun.month]) :
           EpisodeOf[image] \in tags

\* the episode tag of the most recent logged emission
LastTag == { EpisodeOf[name] : name \in LastLogged(1) }

\* C24: when the guard over the last 3 emissions leaves no candidate but a
\* non-excluded eligible image is of an episode other than that of the most
\* recent emission, the selection is of an episode other than that of the
\* most recent emission.
C24_RelaxedGuardBeforeNone ==
  ( /\ lastRun.via = "selector"
    /\ ~ lastRun.threw
    /\ ~ lastRun.exhausted
    /\ EpisodeOf[lastRun.imageName] \in LastTag
    /\ LET tags == LastThreeTags
       IN  \A image \in NonExcludedEligible : EpisodeOf[image] \in tags )
  => LET last == LastTag
     IN  \A image \in NonExcludedEligible : EpisodeOf[image] \in last

\* the run of the bot selected with the rotation tracker and every call of
\* postImage failed
PublishingFailed ==
  /\ lastRun.op = "main"
  /\ lastRun.via = "selector"
  /\ ~ lastRun.threw
  /\ ~ lastRun.posted

\* the run of the bot selected with the rotation tracker and published
Published ==
  /\ lastRun.op = "main"
  /\ lastRun.via = "selector"
  /\ lastRun.posted

\* C25: the two persisted files are updated together: a run that publishes
\* records its selection in the rotation state and appends exactly one entry,
\* for the published image, to the log; a run whose publishing fails on every
\* attempt leaves both files as they were before the run.
C25_BothFilesOrNeither ==
  /\ Published =>
       /\ historyFile.kind = "json"
       /\ hashFilename(lastRun.imageName) \in Range(historyFile.recentlyUsed.a)
       /\ botHistoryFile.kind = "json"
       /\ botHistoryFile.entries = JArr(Append(PreviousLog, Entry(lastRun.imageName)))
  /\ PublishingFailed =>
       /\ historyFile = lastRun.historyBefore
       /\ botHistoryFile = lastRun.logBefore

\* the exclusion list the last call handed to saveHistory: the list it
\* went on with, followed by the hash of its selection
PreSaveList ==
  ( IF lastRun.exhausted \/ lastRun.drift THEN <<>>
    ELSE LoadedHistory.recentlyUsed.a ) \o << hashFilename(lastRun.imageName) >>

\* the last n entries of a list, in their order
LastEntries(list, n) == [i \in 1..n |-> list[Len(list) - n + i]]

\* a call of the selector that wrote a list longer than the cap of its catalog
SavedBeyondCap ==
  /\ lastRun.via = "selector"
  /\ ~ lastRun.threw
  /\ lastRun.saved
  /\ recentExclusionSize(Catalog) >= 1
  /\ Len(PreSaveList) > recentExclusionSize(Catalog)

\* C26: a list that exceeds the cap (cap >= 1) at save time is persisted as
\* its last cap entries in their order, so that the hash of the image just
\* selected is retained.
C26_TrimDropsExactlyTheOldest ==
  SavedBeyondCap =>
    /\ historyFile.recentlyUsed.a = LastEntries(PreSaveList, recentExclusionSize(Catalog))
    /\ historyFile.recentlyUsed.a[Len(historyFile.recentlyUsed.a)]
         = hashFilename(lastRun.imageName)

\* C26 as amended: the same unless the document is still longer than 50 KB
\* with the last cap entries; then the last floor(0.7 * cap) of them are
\* persisted (all of them when that is 0).  The hash of the image just
\* selected is retained in either case.
C26_TrimDropsTheOldestOrMore ==
  SavedBeyondCap =>
    LET cap     == recentExclusionSize(Catalog)
        trimmed == LastEntries(PreSaveList, cap)
        fewer   == (cap * 7) \div 10
    IN  /\ historyFile.recentlyUsed.a =
             IF JsonLength([historyFile EXCEPT !.recentlyUsed = JArr(trimmed)]) > maxFileSize
                  /\ fewer > 0
               THEN LastEntries(trimmed, fewer)
               ELSE trimmed
        /\ historyFile.recentlyUsed.a[Len(historyFile.recentlyUsed.a)]
             = hashFilename(lastRun.imageName)

\* a list of one entry more than a cap of 2 or more lost its oldest entry only
C26_Witness ==
  /\ SavedBeyondCap
  /\ recentExclusionSize(Catalog) >= 2
  /\ Len(historyFile.recentlyUsed.a) = recentExclusionSize(Catalog)
  /\ historyFile.recentlyUsed.a[1] = PreSaveList[2]
  /\ historyFile.recentlyUsed.a = LastEntries(PreSaveList, recentExclusionSize(Catalog))

\* the last call went on with a fresh history: the file was not usable, or
\* its totalImagesEver was too far from the catalog
ReplacedByFresh == ~ StoredStateIsUsable(lastRun.historyBefore) \/ lastRun.drift

\* a call of the selector that returned and wrote its history
SavedSelection == lastRun.via = "selector" /\ ~ lastRun.threw /\ lastRun.saved

\* C27: after a call in which the rotation state was reset, by drift, by
\* failed validation or by the completion of a cycle, the persisted
\* totalImagesEver is the size of the eligible pool of that call.
C27_ResetStoresThePoolSize ==
  (SavedSelection /\ (ReplacedByFresh \/ lastRun.exhausted)) =>
    historyFile.totalImagesEver
      = JNum(Len(SeasonallyAllowed[imagequeue, lastRun.month]))

\* C27 as amended: a history replaced by a fresh one is persisted with the
\* size of the whole catalog as totalImagesEver; the completion of a cycle
\* leaves totalImagesEver as it was loaded.
C27_FreshStoresTheCatalogSize ==
  SavedSelection =>
    historyFile.totalImagesEver
      = IF ReplacedByFresh THEN JNum(Len(Catalog))
        ELSE lastRun.historyBefore.totalImagesEver

\* a cycle was completed over a catalog that holds seasonal images, with a
\* stored size that is neither that of the catalog nor that of the pool
C27_Witness ==
  /\ SavedSelection
  /\ lastRun.exhausted
  /\ ~ ReplacedByFresh
  /\ historyFile.totalImagesEver.n # Len(Catalog)
  /\ historyFile.totalImagesEver.n # Len(SeasonallyAllowed[imagequeue, lastRun.month])
  /\ historyFile.recentlyUsed = JArr(<< hashFilename(lastRun.imageName) >>)

\* the images of the catalog the strict check of the weighted loop accepts,
\* and those its relaxed check accepts, for the log and the last image of
\* the state
RecentNames == getRecentPostingHistoryOf(botHistoryFile, weightedHistorySize)

StrictlyAccepted ==
  LET recentHistory == RecentNames
  IN  { image \in { Catalog[i] : i \in DOMAIN Catalog } :
          passesStrict(image, lastPostedImage, recentHistory) }

RelaxedAccepted ==
  LET recentHistory == RecentNames
  IN  { image \in { Catalog[i] : i \in DOMAIN Catalog } :
          passesRelaxed(image, lastPostedImage, recentHistory) }

\* C28: for every catalog and every recent log, every image the strict
\* clustering check accepts is accepted by the relaxed check, and an image
\* the loop returns on its strict check would pass the relaxed check.
C28_RelaxedAcceptsWhatStrictAccepts ==
  namesAreStrings(RecentNames) =>
    /\ StrictlyAccepted \subseteq RelaxedAccepted
    /\ (lastRun.via = "weighted" /\ lastRun.path = "strict") =>
         passesRelaxed(lastRun.imageName, lastPostedImage, RecentNames)

\* the loop has returned an image on its relaxed check that the strict check
\* refuses, while the strict check accepts some other image
C28_Witness ==
  /\ lastRun.via = "weighted"
  /\ lastRun.path = "relaxed"
  /\ namesAreStrings(RecentNames)
  /\ StrictlyAccepted # {}
  /\ lastRun.imageName \in RelaxedAccepted \ StrictlyAccepted

\* the number of values of Math.random() that give index i of n: the pick is
\* uniform when these numbers differ by 1 at most
DrawsOf(i, n) == Cardinality({ k \in 0..(RandomGrain - 1) : randomIndex(k, n) = i })

PoolHashes ==
  LET pool == SeasonallyAllowed[imagequeue, lastRun.month]
  IN  { hashFilename(pool[i]) : i \in DOMAIN pool }

\* C30: fingerprints recorded under the pool of another month are never
\* purged: a call that completes the cycle of its pool and persists a list
\* shorter than the cap, so that nothing was trimmed, leaves every loaded
\* fingerprint of an image outside its pool in the list.
C30_ResetKeepsOtherPools ==
  LET before == lastRun.historyBefore.recentlyUsed.a
      foreign == lastElements(before, recentExclusionSize(Catalog) - 1)
  IN  ( /\ SavedSelection
        /\ lastRun.exhausted
        /\ ~ ReplacedByFresh
        /\ recentExclusionSize(Catalog) >= 1 )
      => \A i \in DOMAIN foreign :
           foreign[i] \notin PoolHashes => InSeq(foreign[i], historyFile.recentlyUsed.a)

\* the lengths the exclusion list of the last call of selectNextImage can
\* have in memory when the call returns, after the push and the trims
SelectedListLengths ==
  { Len(o.document.recentlyUsed.a) :
      o \in { r \in { selectNextImage(imagequeue, lastRun.month, lastRun.historyBefore,
                                       lastRun.logBefore, k, clock) :
                        k \in 0..(RandomGrain - 1) } :
                ~ r.threw /\ r.imageName = lastRun.imageName } }

\* C31: in one run each persisted artifact is read once, before the
\* selection, and written at most once, after it; no artifact is read again
\* after it was written: the exclusion count getStatus reports in the same
\* call of getNextImage is that of the list the selection was made with and
\* handed to saveHistory, whatever has become of the file since.
C31_ArtifactsReadOnceBeforeTheWrite ==
  statusCall.position = "seasonalInfo" =>
    statusCall.excludedCount \in SelectedListLengths

\* a step of main
MainStep == lastRun'.op = "main" /\ clock' # clock

C33_LoopReturnsAnImageOfTheCatalog ==
  (lastRun.via = "weighted" /\ Len(Catalog) >= 2 /\ namesAreStrings(RecentNames)) =>
    /\ ~ lastRun.threw
    /\ lastRun.attempts \in 1..100
    /\ InSeq(lastRun.imageName, Catalog)

\* C34: once the post has been published the run never reports failure: a
\* failure to write the marker file .last_posted_image afterwards does not
\* turn the run into a failed one, and main ends with exit status 0.
C34_PublishedRunReportsSuccess ==
  (lastRun.op = "main" /\ lastRun.posted) => lastRun.exit = 0

\* ---------------------------------------------------------------------
\* C35: starting from a fresh state, after every invocation postsThisCycle
\* equals the number of emissions made since the last reset (drift or
\* cycle completion), it is at least 1, and the length of recentlyUsed
\* never exceeds it.

\* the invocations that reset the cycle: drift detected or cycle completed
Resets == { i \in DOMAIN emitted : emitted[i].drift \/ emitted[i].exhausted }

\* the emissions made since the last reset, the one of the resetting
\* invocation included; with no reset yet, all since the fresh state
EmissionsSinceReset ==
  IF Resets = {} THEN Len(emitted)
  ELSE Len(emitted) - (CHOOSE i \in Resets : \A j \in Resets : j <= i) + 1

CountsTheCycle ==
  /\ historyFile.kind = "json"
  /\ historyFile.postsThisCycle.n = EmissionsSinceReset
  /\ historyFile.postsThisCycle.n >= 1
  /\ Len(historyFile.recentlyUsed.a) <= historyFile.postsThisCycle.n

NotExcluded(m) ==
  Len(availableImagesOf(SeasonallyAllowed[imagequeue, m],
                        Range(historyFile.recentlyUsed.a)))

\* the statistics of an invocation of the selector that saved its history
ReportedCycleInfo ==
  (lastRun.via = "selector" /\ ~ lastRun.threw /\ lastRun.saved) =>
     /\ lastRun.cycleInfo.availableCount = NotExcluded(lastRun.month)
     /\ lastRun.cycleInfo.availableCount >= 0
     /\ lastRun.cycleInfo.exclusionRate \in 0..1000

\* the numbers of getStatus, computed from the history file and the pool
ReportedStatus ==
  (statusCall.position = "seasonalInfo" /\ statusCall.poolSize > 0) =>
     /\ availableCount(statusCall.poolSize, statusCall.excludedCount)
          = NotExcluded(calendarMonth)
     /\ availableCount(statusCall.poolSize, statusCall.excludedCount) >= 0
     /\ exclusionRate(statusCall.excludedCount, statusCall.poolSize) \in 0..1000

C36_ReportedNumbersAgreeWithSelection == ReportedCycleInfo /\ ReportedStatus

\* ---------------------------------------------------------------------
\* C37: a persisted Rotation State whose formatVersion is absent or
\* different from the current version (1) fails validation on load and is
\* replaced by a fresh state instead of being used.

\* the file the last call found parses, and its formatVersion is not 1
OtherFormatVersion ==
  /\ lastRun.historyBefore.kind = "json"
  /\ lastRun.historyBefore.formatVersion # JNum(1)

C37_OtherFormatVersionStartsFresh ==
  (lastRun.via = "selector" /\ OtherFormatVersion) =>
     /\ ~ isValidHistory(lastRun.historyBefore)
     /\ LoadedHistory.recentlyUsed = JArr(<<>>)
     /\ LoadedHistory.postsThisCycle = JNum(0)
     /\ SavedSelection => StartedFresh

====
